---- MODULE Spec2Model ----
(***************************************************************************)
(* Model of src/main.py: the MSE record store operations                   *)
(* (create_or_update_record, delete_record, get_records), the field        *)
(* normalisation done inside create_or_update_record, and the Excel        *)
(* report builder (create_excel_worksheet, create_excel_workbook,          *)
(* export_records).                                                        *)
(*                                                                         *)
(* Python strings are modelled as sequences of one-character strings, so   *)
(* that case conversion, prefix tests, split and join are computed the way *)
(* the code computes them.  Python values are tagged records [t, v].       *)
(***************************************************************************)
EXTENDS Integers, Sequences, FiniteSets, TLC

VARIABLES
    records,          \* table "records": row -> stored columns (row = SERIAL value at INSERT)
    id_seq,           \* last value handed out by the SERIAL sequence of records.id
    response,         \* outcome of the last store call
    bureau_count,     \* settings.bureau_count
    excluded_bureaus, \* settings.excluded_bureaus
    experts,          \* settings.experts
    workbook,         \* sheets of the last workbook built, in creation order
    export_response,  \* outcome of the last export_records call
    record_data,      \* payload handed to the normaliser
    normalized,       \* what the normaliser made of record_data
    map_args,         \* arguments handed to the value mapper
    map_result,       \* what the value mapper returned for map_args
    pool,             \* db_pool: its size and the connections not acquired
    calls             \* store calls running concurrently, each with its position

vars == <<records, id_seq, response, bureau_count, excluded_bureaus, experts,
          workbook, export_response, record_data, normalized, map_args, map_result,
          pool, calls>>

store_vars == <<records, id_seq, response>>
settings_vars == <<bureau_count, excluded_bureaus, experts>>
export_vars == <<workbook, export_response>>
norm_vars == <<record_data, normalized>>
mapper_vars == <<map_args, map_result>>
pool_vars == <<pool, calls>>

----------------------------------------------------------------------------
(* Bounds of the model *)

\* Most rows the SERIAL sequence hands out in a run.
MaxSeq == 2
\* Most special marks in a payload.
MaxMarks == 2
MaxName == 4

----------------------------------------------------------------------------
(* Python values *)

Null == [t |-> "null", v |-> 0]
Str(s) == [t |-> "str", v |-> s]
List(l) == [t |-> "list", v |-> l]
IntV(n) == [t |-> "int", v |-> n]
DateV(y, m, d) == [t |-> "date", v |-> <<y, m, d>>]
\* True and False; as numbers they are 1 and 0.
BoolV(b) == [t |-> "bool", v |-> IF b THEN 1 ELSE 0]

IsNull(x) == x.t = "null"
IsStr(x) == x.t = "str"
IsList(x) == x.t = "list"
IsInt(x) == x.t = "int"
IsDate(x) == x.t = "date"

\* Python truthiness: None, '', [] and 0 are falsy.
Truthy(x) ==
    CASE IsNull(x) -> FALSE
      [] IsStr(x) -> Len(x.v) > 0
      [] IsList(x) -> Len(x.v) > 0
      [] IsInt(x) -> x.v # 0
      [] x.t = "bool" -> x.v # 0
      [] OTHER -> TRUE

\* value in (None, '')
NoneOrEmpty(x) == IsNull(x) \/ (IsStr(x) /\ x.v = <<>>)

----------------------------------------------------------------------------
(* Characters and strings *)

UpperToLower ==
    [A |-> "a", B |-> "b", C |-> "c", D |-> "d", E |-> "e", F |-> "f",
     G |-> "g", H |-> "h", I |-> "i", J |-> "j", K |-> "k", L |-> "l",
     M |-> "m", N |-> "n", O |-> "o", P |-> "p", Q |-> "q", R |-> "r",
     S |-> "s", T |-> "t", U |-> "u", V |-> "v", W |-> "w", X |-> "x",
     Y |-> "y", Z |-> "z"]

isupper(c) == c \in DOMAIN UpperToLower
lowerchar(c) == IF isupper(c) THEN UpperToLower[c] ELSE c
lower(s) == [i \in 1..Len(s) |-> lowerchar(s[i])]

DigitChars == <<"0", "1", "2", "3", "4", "5", "6", "7", "8", "9">>
isdigit(c) == \E i \in 1..10 : DigitChars[i] = c
DigitVal(c) == (CHOOSE i \in 1..10 : DigitChars[i] = c) - 1

Whitespace == {" ", "\t"}

startswith(s, prefix) ==
    Len(s) >= Len(prefix) /\ SubSeq(s, 1, Len(prefix)) = prefix

RECURSIVE lstrip(_, _)
lstrip(s, c) ==
    IF s # <<>> /\ Head(s) = c THEN lstrip(Tail(s), c) ELSE s

\* str.split(sep): the pieces between the separators, empty pieces kept.
RECURSIVE SplitFrom(_, _, _)
SplitFrom(s, sep, cur) ==
    IF s = <<>> THEN <<cur>>
    ELSE IF Head(s) = sep THEN <<cur>> \o SplitFrom(Tail(s), sep, <<>>)
    ELSE SplitFrom(Tail(s), sep, Append(cur, Head(s)))

split(s, sep) == SplitFrom(s, sep, <<>>)

\* str.split(): the maximal runs of non-whitespace characters.
RECURSIVE WordsFrom(_, _)
WordsFrom(s, cur) ==
    IF s = <<>> THEN (IF cur = <<>> THEN <<>> ELSE <<cur>>)
    ELSE IF Head(s) \in Whitespace
         THEN (IF cur = <<>> THEN <<>> ELSE <<cur>>) \o WordsFrom(Tail(s), <<>>)
         ELSE WordsFrom(Tail(s), Append(cur, Head(s)))

split_ws(s) == WordsFrom(s, <<>>)

\* sep.join(parts)
RECURSIVE join(_, _)
join(sep, parts) ==
    IF parts = <<>> THEN <<>>
    ELSE IF Len(parts) = 1 THEN parts[1]
    ELSE parts[1] \o sep \o join(sep, Tail(parts))

\* str.strip()
RECURSIVE lstrip_ws(_)
lstrip_ws(s) ==
    IF s # <<>> /\ Head(s) \in Whitespace THEN lstrip_ws(Tail(s)) ELSE s

RECURSIVE rstrip_ws(_)
rstrip_ws(s) ==
    IF s # <<>> /\ s[Len(s)] \in Whitespace
    THEN rstrip_ws(SubSeq(s, 1, Len(s) - 1)) ELSE s

strip(s) == rstrip_ws(lstrip_ws(s))

\* str(n) for n >= 0
RECURSIVE IntToStr(_)
IntToStr(n) ==
    IF n < 10 THEN <<DigitChars[n + 1]>>
    ELSE Append(IntToStr(n \div 10), DigitChars[(n % 10) + 1])

RECURSIVE StrToInt(_)
StrToInt(s) ==
    IF s = <<>> THEN 0
    ELSE 10 * StrToInt(SubSeq(s, 1, Len(s) - 1)) + DigitVal(s[Len(s)])

alldigits(s) == \A i \in 1..Len(s) : isdigit(s[i])

----------------------------------------------------------------------------
(* Names: payload keys, column names, unit identifier prefixes *)

K_mseDate == <<"m", "s", "e", "D", "a", "t", "e">>
K_decisionDate == <<"d", "e", "c", "i", "s", "i", "o", "n", "D", "a", "t", "e">>
K_regDate == <<"r", "e", "g", "D", "a", "t", "e">>
K_birthDate == <<"b", "i", "r", "t", "h", "D", "a", "t", "e">>
K_specialMarks == <<"s", "p", "e", "c", "i", "a", "l", "M", "a", "r", "k", "s">>
K_fullName == <<"f", "u", "l", "l", "N", "a", "m", "e">>
K_documentFormat == <<"d", "o", "c", "u", "m", "e", "n", "t", "F", "o", "r", "m", "a", "t">>
K_pdoDeveloped == <<"p", "d", "o", "D", "e", "v", "e", "l", "o", "p", "e", "d">>
K_expertDocumentFormat == <<"e", "x", "p", "e", "r", "t", "D", "o", "c", "u", "m", "e", "n", "t", "F", "o", "r", "m", "a", "t">>
K_expertPurpose == <<"e", "x", "p", "e", "r", "t", "P", "u", "r", "p", "o", "s", "e">>
K_pdoDevelopedExpert == <<"p", "d", "o", "D", "e", "v", "e", "l", "o", "p", "e", "d", "E", "x", "p", "e", "r", "t">>
K_bureauNumber == <<"b", "u", "r", "e", "a", "u", "N", "u", "m", "b", "e", "r">>
K_BureauNumber == <<"B", "u", "r", "e", "a", "u", "N", "u", "m", "b", "e", "r">>
K_bureaNumber == <<"b", "u", "r", "e", "a", "N", "u", "m", "b", "e", "r">>

id == <<"i", "d">>
bureau_number == <<"b", "u", "r", "e", "a", "u", "_", "n", "u", "m", "b", "e", "r">>
full_name == <<"f", "u", "l", "l", "_", "n", "a", "m", "e">>
birth_date == <<"b", "i", "r", "t", "h", "_", "d", "a", "t", "e">>
mse_date == <<"m", "s", "e", "_", "d", "a", "t", "e">>
decision_date == <<"d", "e", "c", "i", "s", "i", "o", "n", "_", "d", "a", "t", "e">>
reg_date == <<"r", "e", "g", "_", "d", "a", "t", "e">>
special_marks == <<"s", "p", "e", "c", "i", "a", "l", "_", "m", "a", "r", "k", "s">>
document_format == <<"d", "o", "c", "u", "m", "e", "n", "t", "_", "f", "o", "r", "m", "a", "t">>
purpose == <<"p", "u", "r", "p", "o", "s", "e">>
pdo_developed == <<"p", "d", "o", "_", "d", "e", "v", "e", "l", "o", "p", "e", "d">>

S_bureanumber == <<"b", "u", "r", "e", "a", "n", "u", "m", "b", "e", "r">>
S_bureau_ == <<"b", "u", "r", "e", "a", "u", "_">>
S_expert_ == <<"e", "x", "p", "e", "r", "t", "_">>
S_omo == <<"o", "m", "o">>
S_all == <<"a", "l", "l">>

----------------------------------------------------------------------------
(* Dictionaries: a dict is a function from keys to values *)

EmptyDict == [k \in {} |-> Null]

Put(d, k, x) == [j \in (DOMAIN d) \cup {k} |-> IF j = k THEN x ELSE d[j]]

\* dict.get(k): None when the key is absent
Get(d, k) == IF k \in DOMAIN d THEN d[k] ELSE Null

----------------------------------------------------------------------------
(* datetime.strptime(value, fmt).date() for the three formats of line 678 *)

IsLeap(y) == (y % 4 = 0 /\ y % 100 # 0) \/ y % 400 = 0

DaysInMonth(y, m) ==
    IF m = 2 THEN (IF IsLeap(y) THEN 29 ELSE 28)
    ELSE IF m \in {4, 6, 9, 11} THEN 30 ELSE 31

NonZeroDigit(c) == isdigit(c) /\ c # "0"

\* %Y: exactly four digits
YearPartOK(p) == Len(p) = 4 /\ alldigits(p)

\* %m: 1[0-2] | 0[1-9] | [1-9]
MonthPartOK(p) ==
    \/ Len(p) = 1 /\ NonZeroDigit(p[1])
    \/ Len(p) = 2 /\ p[1] = "1" /\ p[2] \in {"0", "1", "2"}
    \/ Len(p) = 2 /\ p[1] = "0" /\ NonZeroDigit(p[2])

\* %d: 3[01] | [12]\d | 0[1-9] | [1-9] | " "[1-9]
DayPartOK(p) ==
    \/ Len(p) = 1 /\ NonZeroDigit(p[1])
    \/ Len(p) = 2 /\ p[1] = "3" /\ p[2] \in {"0", "1"}
    \/ Len(p) = 2 /\ p[1] \in {"1", "2"} /\ isdigit(p[2])
    \/ Len(p) = 2 /\ p[1] \in {"0", " "} /\ NonZeroDigit(p[2])

\* The formats tried, in the order of the tuple at line 678:
\* "%Y-%m-%d", "%d.%m.%Y", "%m/%d/%Y".  (y, m, d) give each part's position.
DateFormats ==
    << [sep |-> "-", y |-> 1, m |-> 2, d |-> 3],
       [sep |-> ".", y |-> 3, m |-> 2, d |-> 1],
       [sep |-> "/", y |-> 3, m |-> 1, d |-> 2] >>

\* The date of the parsed numbers: year 0 and a day past the month's end
\* are ValueErrors.
checked_date(yy, mm, dd) ==
    IF yy >= 1 /\ dd <= DaysInMonth(yy, mm)
    THEN [ok |-> TRUE, date |-> DateV(yy, mm, dd)]
    ELSE [ok |-> FALSE]

date_of_parts(yp, mp, dp) ==
    IF YearPartOK(yp) /\ MonthPartOK(mp) /\ DayPartOK(dp)
    THEN checked_date(StrToInt(yp), StrToInt(mp), StrToInt(lstrip(dp, " ")))
    ELSE [ok |-> FALSE]

date_of_split(parts, fmt) ==
    IF Len(parts) # 3 THEN [ok |-> FALSE]
    ELSE date_of_parts(parts[fmt.y], parts[fmt.m], parts[fmt.d])

\* A parser that reads every string in the first format's order of parts.
strptime_first_order(value, fmt) == date_of_split(split(value, fmt.sep), DateFormats[1])

strptime(value, fmt) == date_of_split(split(value, fmt.sep), fmt)

\* The for/else of lines 678-685: the first format that parses wins.
RECURSIVE parse_date_from(_, _)
first_parsed(r, value, i) == IF r.ok THEN r ELSE parse_date_from(value, i + 1)

parse_date_from(value, i) ==
    IF i > Len(DateFormats) THEN [ok |-> FALSE]
    ELSE first_parsed(strptime(value, DateFormats[i]), value, i)

parse_date(value) == parse_date_from(value, 1)

----------------------------------------------------------------------------
(* Field normalisation: lines 654-706 of create_or_update_record *)

DateFields == {mse_date, decision_date, reg_date, birth_date}

\* Keys taken as they are, aliases included.
canonical_key_as_sent(key) == key

\* Lines 660-665: the expert-panel aliases of three shared fields.
canonical_key(key) ==
    IF key = K_expertDocumentFormat THEN K_documentFormat
    ELSE IF key = K_expertPurpose THEN purpose
    ELSE IF key = K_pdoDevelopedExpert THEN K_pdoDeveloped
    ELSE key

\* Line 667: camelCase -> snake_case.
RECURSIVE snake_chars(_)
snake_chars(key) ==
    IF key = <<>> THEN <<>>
    ELSE (IF isupper(Head(key)) THEN <<"_", lowerchar(Head(key))>> ELSE <<Head(key)>>)
         \o snake_chars(Tail(key))

snake_key(key) == lstrip(snake_chars(key), "_")

\* Line 656: the keys the loop skips.
skipped_key(key) == lower(key) = S_bureanumber

\* A date field that keeps a string no format parses.
parsed_or_kept(key, value, r) == [status |-> 200, value |-> IF r.ok THEN r.date ELSE value]

\* Lines 670-692: one date field.  A string that no format parses raises
\* HTTPException(400) whose detail carries the key and the raw value.
parsed_or_400(key, value, r) ==
    IF r.ok THEN [status |-> 200, value |-> r.date]
    ELSE [status |-> 400,
          detail |-> [error |-> "bad_date_format", field |-> key, raw |-> value]]

normalize_date(key, value) ==
    IF IsNull(value) \/ (IsStr(value) /\ value.v = <<>>)
    THEN [status |-> 200, value |-> Null]
    ELSE IF IsDate(value) THEN [status |-> 200, value |-> value]
    ELSE IF IsStr(value) THEN parsed_or_400(key, value, parse_date(value.v))
    ELSE [status |-> 200, value |-> value]

\* Fields stored as they are sent.
normalize_other_as_sent(snake, value) == value

\* Lines 693-698: special_marks given as a list, and every other field.
normalize_other(snake, value) ==
    IF snake = special_marks /\ IsList(value)
    THEN (IF Truthy(value) THEN Str(join(<<",">>, value.v)) ELSE Null)
    ELSE (IF NoneOrEmpty(value) THEN Null ELSE value)

\* Lines 655-698: the loop over record_data.items(), in payload key order.
\* items is a sequence of [key, value]; transformed_data is the dict so far.
RECURSIVE transform_items(_, _)
store_date(rest, transformed_data, snake, r) ==
    IF r.status # 200 THEN r
    ELSE transform_items(rest, Put(transformed_data, snake, r.value))

transform_item(rest, transformed_data, key, snake, value) ==
    IF snake \in DateFields
    THEN store_date(rest, transformed_data, snake, normalize_date(key, value))
    ELSE transform_items(rest, Put(transformed_data, snake, normalize_other(snake, value)))

transform_items(items, transformed_data) ==
    IF items = <<>> THEN [status |-> 200, data |-> transformed_data]
    ELSE IF skipped_key(Head(items).key) THEN transform_items(Tail(items), transformed_data)
    ELSE transform_item(Tail(items), transformed_data, canonical_key(Head(items).key),
                        snake_key(canonical_key(Head(items).key)), Head(items).value)

\* Mutant of mse_date_missing: only the key's presence is tested.
mse_date_missing_key_only(transformed_data) == mse_date \notin DOMAIN transformed_data

\* Lines 700-702: the required field.
mse_date_missing(transformed_data) == ~Truthy(Get(transformed_data, mse_date))

\* Lines 704-706: the full name; a truthy value without .split() raises
\* AttributeError, which line 775 turns into a 500.
normalize_full_name(transformed_data) ==
    IF full_name \in DOMAIN transformed_data /\ Truthy(transformed_data[full_name])
    THEN (IF IsStr(transformed_data[full_name])
          THEN [status |-> 200,
                data |-> Put(transformed_data, full_name,
                             Str(join(<<" ">>, split_ws(transformed_data[full_name].v))))]
          ELSE [status |-> 500, detail |-> [error |-> "save_failed"]])
    ELSE [status |-> 200, data |-> transformed_data]

\* Lines 654-706 as a whole: the canonical field set, or the failure raised.
validate(t) ==
    IF t.status # 200 THEN t
    ELSE IF mse_date_missing(t.data)
    THEN [status |-> 400, detail |-> [error |-> "mse_date_required"]]
    ELSE normalize_full_name(t.data)

normalize(items) == validate(transform_items(items, EmptyDict))

----------------------------------------------------------------------------
(* The table "records" (lines 452-489) and the statements run against it  *)

\* The columns of the table that the model carries (a subset of lines
\* 454-487; the remaining VARCHAR columns behave like purpose).
Columns ==
    {id, bureau_number, full_name, birth_date, mse_date, decision_date,
     reg_date, special_marks, document_format, purpose, pdo_developed}

\* id SERIAL PRIMARY KEY, bureau_number VARCHAR(50) NOT NULL
NotNullColumns == {id, bureau_number}

\* What the driver accepts as the parameter of a column: NULL, or a value
\* of the column's type (anything else is a DataError).
param_ok(column, value) ==
    \/ IsNull(value)
    \/ column = id /\ IsInt(value)
    \/ column \in DateFields /\ IsDate(value)
    \/ column \notin DateFields \cup {id} /\ IsStr(value)

\* The rows whose id column is n.
rows_with_id(table, n) == {r \in DOMAIN table : table[r][id] = IntV(n)}

\* SELECT * FROM records WHERE id = $1 (lines 630-641): the row or None.
get_record_by_id(table, record_id) ==
    IF rows_with_id(table, record_id) = {} THEN Null
    ELSE [t |-> "row", v |-> table[CHOOSE r \in rows_with_id(table, record_id) : TRUE]]

\* Whether a statement naming these columns with these parameters is
\* accepted before it runs (known columns, none twice, parameter types).
statement_ok(columns, data) ==
    /\ \A i \in 1..Len(columns) : columns[i] \in Columns
    /\ \A i, j \in 1..Len(columns) : i # j => columns[i] # columns[j]
    /\ \A i \in 1..Len(columns) : param_ok(columns[i], data[columns[i]])

\* A sequence holding the elements of a set, one each.
RECURSIVE SetToSeq(_)
SetToSeq(S) ==
    IF S = {} THEN <<>>
    ELSE LET x == CHOOSE x \in S : TRUE IN <<x>> \o SetToSeq(S \ {x})

\* UPDATE records SET <key = value, ...> WHERE id = $n RETURNING id
\* (lines 724-739).  result is the id returned, None when no row matched.
updated_row(row, transformed_data) ==
    [c \in Columns |-> IF c \in DOMAIN transformed_data THEN transformed_data[c] ELSE row[c]]

updated_table(table, target, transformed_data) ==
    [r \in DOMAIN table |->
        IF r \in target THEN updated_row(table[r], transformed_data) ELSE table[r]]

\* NOT NULL and PRIMARY KEY hold in the table as updated, or the statement fails.
constraints_ok(new_table) ==
    /\ \A r \in DOMAIN new_table, c \in NotNullColumns : ~IsNull(new_table[r][c])
    /\ \A r1, r2 \in DOMAIN new_table : r1 # r2 => new_table[r1][id] # new_table[r2][id]

update_rows(table, target, new_table) ==
    IF target = {} THEN [ok |-> TRUE, table |-> table, result |-> Null]
    ELSE IF ~constraints_ok(new_table) THEN [ok |-> FALSE, table |-> table]
    ELSE [ok |-> TRUE, table |-> new_table,
          result |-> new_table[CHOOSE r \in target : TRUE][id]]

sql_update(table, transformed_data, record_id) ==
    IF ~statement_ok(SetToSeq(DOMAIN transformed_data), transformed_data)
    THEN [ok |-> FALSE, table |-> table]
    ELSE update_rows(table, rows_with_id(table, record_id),
                     updated_table(table, rows_with_id(table, record_id), transformed_data))

\* Lines 754-759: drop the first "id" from the column list.  The payloads
\* drawn name id after their other keys, so the placeholders that remain
\* are $1..$n, one per value.
RECURSIVE without_first(_, _)
without_first(columns, c) ==
    IF columns = <<>> THEN <<>>
    ELSE IF Head(columns) = c THEN Tail(columns)
    ELSE <<Head(columns)>> \o without_first(Tail(columns), c)

\* INSERT INTO records (bureau_number, <keys>) VALUES (...) RETURNING id
\* (lines 745-767).  The id comes from the SERIAL sequence; a statement that
\* is refused before it runs does not advance the sequence, a primary-key
\* conflict does.
inserted_row(new_id, bureau, transformed_data) ==
    [c \in Columns |->
        IF c = id THEN IntV(new_id)
        ELSE IF c = bureau_number THEN Str(bureau)
        ELSE Get(transformed_data, c)]

insert_row(table, new_id, row) ==
    IF rows_with_id(table, new_id) # {}
    THEN [ok |-> FALSE, table |-> table, seq |-> new_id]
    ELSE [ok |-> TRUE, seq |-> new_id, result |-> IntV(new_id),
          table |-> [r \in (DOMAIN table) \cup {new_id} |->
                       IF r = new_id THEN row ELSE table[r]]]

sql_insert(table, seq, bureau, transformed_data) ==
    IF ~statement_ok(without_first(<<bureau_number>> \o SetToSeq(DOMAIN transformed_data), id),
                     Put(transformed_data, bureau_number, Str(bureau)))
    THEN [ok |-> FALSE, table |-> table, seq |-> seq]
    ELSE insert_row(table, seq + 1, inserted_row(seq + 1, bureau, transformed_data))

\* DELETE FROM records WHERE id = $1 (lines 788-791)
sql_delete(table, record_id) ==
    [r \in (DOMAIN table) \ rows_with_id(table, record_id) |-> table[r]]

----------------------------------------------------------------------------
(* create_or_update_record (lines 647-780) and delete_record (783-797)     *)

Failure(status, error, table, seq) ==
    [status |-> status, detail |-> [error |-> error], result |-> Null,
     table |-> table, seq |-> seq]

\* Lines 710-716: int(record_id); only decimal digit strings are modelled
\* as convertible strings.
int_ok(record_id) ==
    IsInt(record_id) \/ (IsStr(record_id) /\ record_id.v # <<>> /\ alldigits(record_id.v))

int_of(record_id) == IF IsInt(record_id) THEN record_id.v ELSE StrToInt(record_id.v)

\* Lines 739-742 without the test of line 740: whatever the UPDATE
\* returned is returned.
update_result_unchecked(seq, u) ==
    IF ~u.ok THEN Failure(500, "save_failed", u.table, seq)
    ELSE [status |-> 200, detail |-> [error |-> "none"], result |-> u.result,
          table |-> u.table, seq |-> seq]

\* Lines 708-742: the update branch, taken when record_id is truthy.
\* Lines 739-742: the id the UPDATE returned, or 404 when it returned none.
update_result(seq, u) ==
    IF ~u.ok THEN Failure(500, "save_failed", u.table, seq)
    ELSE IF ~Truthy(u.result) THEN Failure(404, "not_found_after_update", u.table, seq)
    ELSE [status |-> 200, detail |-> [error |-> "none"], result |-> u.result,
          table |-> u.table, seq |-> seq]

\* The update branch as an upsert: a record id that is not found gets a
\* new record in place of the 404 of line 721.
update_branch_upsert(table, seq, transformed_data, record_id) ==
    IF ~int_ok(record_id) THEN Failure(400, "bad_record_id", table, seq)
    ELSE IF IsNull(get_record_by_id(table, int_of(record_id)))
    THEN [status |-> 200, detail |-> [error |-> "none"], result |-> IntV(seq + 1),
          table |-> sql_insert(table, seq, S_omo, transformed_data).table, seq |-> seq + 1]
    ELSE update_result(seq, sql_update(table, transformed_data, int_of(record_id)))

update_branch(table, seq, transformed_data, record_id) ==
    IF ~int_ok(record_id) THEN Failure(400, "bad_record_id", table, seq)
    ELSE IF IsNull(get_record_by_id(table, int_of(record_id)))
    THEN Failure(404, "not_found", table, seq)
    ELSE update_result(seq, sql_update(table, transformed_data, int_of(record_id)))

\* Lines 767-770: the id the INSERT returned.
insert_result(i) ==
    IF ~i.ok THEN Failure(500, "save_failed", i.table, i.seq)
    ELSE [status |-> 200, detail |-> [error |-> "none"], result |-> i.result,
          table |-> i.table, seq |-> i.seq]

\* Lines 743-770: the insert branch.
insert_branch(table, seq, bureau, transformed_data) ==
    insert_result(sql_insert(table, seq, bureau, transformed_data))

\* Lines 708, 743: update when record_id is truthy, insert otherwise.
save(table, seq, bureau, record_id, n) ==
    IF n.status # 200
    THEN [status |-> n.status, detail |-> n.detail, result |-> Null,
          table |-> table, seq |-> seq]
    ELSE IF Truthy(record_id) THEN update_branch(table, seq, n.data, record_id)
    ELSE insert_branch(table, seq, bureau, n.data)

\* The whole function: what it returns or raises, and the table after it.
create_or_update_record(table, seq, bureau, items, record_id) ==
    save(table, seq, bureau, record_id, normalize(items))

----------------------------------------------------------------------------
(* create_or_update_record_endpoint (lines 1335-1378)                      *)

\* dict operations on a payload kept in key order
RECURSIVE item_get(_, _)
item_get(items, key) ==
    IF items = <<>> THEN Null
    ELSE IF Head(items).key = key THEN Head(items).value
    ELSE item_get(Tail(items), key)

item_del(items, key) == SelectSeq(items, LAMBDA e : e.key # key)

item_set(items, key, value) ==
    [i \in 1..Len(items) |-> IF items[i].key = key THEN [key |-> key, value |-> value]
                             ELSE items[i]]

\* Lines 1352-1353: the full name with its whitespace runs collapsed.
with_full_name(record, name) ==
    IF Truthy(name) /\ IsStr(name)
    THEN item_set(record, K_fullName, Str(join(<<" ">>, split_ws(name.v))))
    ELSE record

\* Lines 1363-1366: the saved record is read back.
read_back(saved) ==
    IF saved.status # 200 THEN saved
    ELSE IF IsNull(get_record_by_id(saved.table, saved.result.v))
    THEN Failure(404, "not_found_after_save", saved.table, saved.seq)
    ELSE saved

\* Lines 1343-1361, on the payload without its "bureauNumber" key.
endpoint_checks(table, seq, bureau, record, name, record_id) ==
    IF bureau = <<>> THEN Failure(400, "no_bureau", table, seq)
    ELSE IF ~Truthy(item_get(record, K_mseDate))
    THEN Failure(400, "mse_date_required", table, seq)
    ELSE IF Truthy(name) /\ ~IsStr(name) THEN Failure(500, "server_error", table, seq)
    ELSE IF Truthy(record_id) /\ ~IsInt(record_id)
    THEN Failure(500, "lookup_failed", table, seq)
    ELSE IF Truthy(record_id) /\ IsNull(get_record_by_id(table, record_id.v))
    THEN Failure(404, "not_found", table, seq)
    ELSE read_back(create_or_update_record(table, seq, bureau,
                                           with_full_name(record, name), record_id))

create_or_update_record_endpoint(table, seq, bureau, items, record_id) ==
    endpoint_checks(table, seq, bureau, item_del(items, K_bureauNumber),
                    item_get(item_del(items, K_bureauNumber), K_fullName), record_id)

----------------------------------------------------------------------------
(* Inputs *)

bureau_id(n) == S_bureau_ \o IntToStr(n)
expert_id(n) == S_expert_ \o IntToStr(n)

Entry(key, value) == <<[key |-> key, value |-> value]>>

Date_iso == <<"2", "0", "2", "4", "-", "0", "1", "-", "1", "5">>
Date_dotted == <<"1", "5", ".", "0", "1", ".", "2", "0", "2", "4">>
Date_slashed == <<"0", "1", "/", "1", "5", "/", "2", "0", "2", "4">>
Date_later == <<"2", "0", "2", "4", "-", "0", "2", "-", "2", "9">>
Date_bad == <<"2", "0", "2", "3", "-", "0", "2", "-", "2", "9">>

\* The units whose callers the store specification draws.
StoreUnits == {bureau_id(1), expert_id(1)}

\* Payloads of the store specification: the examination date (given, empty,
\* null or absent), then at most one further key, then possibly the
\* snake_case spelling of the examination date, which overrides the first.
StoreExamEntries ==
    {<<>>, Entry(K_mseDate, Str(Date_iso)), Entry(K_mseDate, Str(<<>>)),
     Entry(K_mseDate, Null)}

StoreExtraEntries ==
    {<<>>}
    \cup {Entry(id, IntV(n)) : n \in 1..(MaxSeq + 1)}
    \cup {Entry(k, Str(expert_id(1))) :
            k \in {bureau_number, K_bureauNumber, K_BureauNumber, K_bureaNumber}}

StoreOverrideEntries == {<<>>, Entry(mse_date, Str(<<>>))}

StorePayloads ==
    {a \o b \o c : a \in StoreExamEntries, b \in StoreExtraEntries,
                   c \in StoreOverrideEntries}

StoreRecordIds == {Null} \cup {IntV(n) : n \in 1..(MaxSeq + 1)}

\* Special-marks codes (keys of COMMON_VALUE_MAPPINGS["special_marks"]).
Code_amputee == <<"a", "m", "p", "u", "t", "e", "e">>
Code_svo == <<"s", "v", "o">>

\* Lists of at most n marks drawn from S.
RECURSIVE ListsUpTo(_, _)
ListsUpTo(S, n) ==
    IF n = 0 THEN {<<>>}
    ELSE ListsUpTo(S, n - 1) \cup {Append(l, x) : l \in ListsUpTo(S, n - 1), x \in S}

\* Special marks as the form sends them (a list of codes, possibly with an
\* empty entry) and as a client may send them (a string).
MarkLists == ListsUpTo({Code_amputee, Code_svo, <<>>}, MaxMarks)

MarkValues == {List(l) : l \in MarkLists} \cup {Str(join(<<",">>, l)) : l \in MarkLists}

\* Payloads of the normalisation specification: an examination date in one
\* of its spellings, then special marks under either naming convention.
NormExamEntries ==
    {Entry(K_mseDate, x) :
        x \in {Str(Date_iso), Str(Date_dotted), Str(Date_slashed), DateV(2024, 1, 15),
               Str(Date_bad), Null}}

NormFieldEntries ==
    {<<>>} \cup {Entry(k, x) : k \in {K_specialMarks, special_marks}, x \in MarkValues}

\* Calendar dates (year, month, day), among them the ends of months, a leap
\* day, and days that are also month numbers.
NormDates ==
    {d \in {1900, 2023, 2024} \X {1, 2, 12} \X {1, 12, 13, 28, 29, 31} :
        d[3] <= DaysInMonth(d[1], d[2])}

\* A number written with at least n digits.
RECURSIVE Padded(_, _)
Padded(digits, n) == IF Len(digits) >= n THEN digits ELSE Padded(<<"0">> \o digits, n)

\* The date d written in the i-th accepted format:
\* 1 YYYY-MM-DD, 2 DD.MM.YYYY, 3 MM/DD/YYYY.
Written(d, i) ==
    IF i = 1
    THEN Padded(IntToStr(d[1]), 4) \o <<"-">> \o Padded(IntToStr(d[2]), 2) \o <<"-">>
         \o Padded(IntToStr(d[3]), 2)
    ELSE IF i = 2
    THEN Padded(IntToStr(d[3]), 2) \o <<".">> \o Padded(IntToStr(d[2]), 2) \o <<".">>
         \o Padded(IntToStr(d[1]), 4)
    ELSE Padded(IntToStr(d[2]), 2) \o <<"/">> \o Padded(IntToStr(d[3]), 2) \o <<"/">>
         \o Padded(IntToStr(d[1]), 4)

WrittenDates == {Written(d, i) : d \in NormDates, i \in 1..3}

\* Non-empty strings that are no date in any accepted format: a day past
\* the month's end, a month past 12, the parts in another order or with
\* another separator, a two-digit year, text, a blank.
UnparsableDates ==
    {Date_bad,
     <<"2", "0", "2", "4", "-", "1", "3", "-", "0", "1">>,
     <<"1", "5", "-", "0", "1", "-", "2", "0", "2", "4">>,
     <<"3", "1", "/", "1", "2", "/", "2", "0", "2", "4">>,
     <<"2", "0", "2", "4", ".", "0", "1", ".", "1", "5">>,
     <<"1", "5", ".", "0", "1", ".", "2", "4">>,
     <<"2", "0", "2", "4", "-", "0", "1", "-", "1", "5", "T", "1", "0">>,
     <<"s", "o", "o", "n">>,
     <<" ">>}

\* The date fields under the key the form sends and the column they fill.
DateKeys ==
    {[key |-> K_mseDate, column |-> mse_date],
     [key |-> K_decisionDate, column |-> decision_date],
     [key |-> K_regDate, column |-> reg_date],
     [key |-> K_birthDate, column |-> birth_date]}

\* Payloads with one date field written in an accepted format, or not a
\* date at all; a field other than the examination date follows a good
\* examination date.
NormDatePayloads ==
    {Entry(K_mseDate, Str(x)) : x \in WrittenDates \cup UnparsableDates}
    \cup {Entry(K_mseDate, Str(Date_iso)) \o Entry(k, Str(x)) :
             k \in {K_decisionDate, K_regDate, K_birthDate},
             x \in WrittenDates \cup UnparsableDates}

\* Values of a date field that are no string: a native date, numbers,
\* booleans and lists.
TypedDateValues ==
    {DateV(2024, 1, 15), IntV(20240115), IntV(0), BoolV(TRUE), BoolV(FALSE),
     List(<<>>), List(<<Date_iso>>)}

NormTypedDatePayloads ==
    {Entry(K_mseDate, x) : x \in TypedDateValues}
    \cup {Entry(K_mseDate, Str(Date_iso)) \o Entry(k, x) :
             k \in {K_decisionDate, K_regDate, K_birthDate}, x \in TypedDateValues}

\* Field values: two codes and the empty string.
V_paper == <<"p", "a", "p", "e", "r">>
V_electronic == <<"e", "l", "e", "c", "t", "r", "o", "n", "i", "c">>

NormTexts == {Str(V_paper), Str(V_electronic), Str(<<>>)}

\* The three shared fields: the key the expert-panel form sends, the keys
\* the bureau form or a client sends, and the column.
AliasedFields ==
    {[alias |-> K_expertDocumentFormat, keys |-> {K_documentFormat, document_format},
      column |-> document_format],
     [alias |-> K_expertPurpose, keys |-> {purpose}, column |-> purpose],
     [alias |-> K_pdoDevelopedExpert, keys |-> {K_pdoDeveloped, pdo_developed},
      column |-> pdo_developed]}

\* Payloads with a shared field under its alias, under its own key, or
\* under both in either order.
NormAliasPayloads ==
    UNION {{Entry(K_mseDate, Str(Date_iso)) \o Entry(f.alias, x) : x \in NormTexts}
           \cup {Entry(K_mseDate, Str(Date_iso)) \o Entry(f.alias, x) \o Entry(k, y) :
                    k \in f.keys, x \in NormTexts, y \in NormTexts}
           \cup {Entry(K_mseDate, Str(Date_iso)) \o Entry(k, y) \o Entry(f.alias, x) :
                    k \in f.keys, x \in NormTexts, y \in NormTexts}
           : f \in AliasedFields}

\* Payloads with one text field, holding a code, '' or null.
NormTextPayloads ==
    {Entry(K_mseDate, Str(Date_iso)) \o Entry(k, x) :
        k \in {K_documentFormat, document_format, purpose}, x \in NormTexts \cup {Null}}

\* Full names: every string of at most MaxName characters over two letters,
\* the space and the tab, and the name "  Ivan   Petrov  ".
Name_spaced ==
    <<" ", " ", "I", "v", "a", "n", " ", " ", " ", "P", "e", "t", "r", "o", "v", " ", " ">>

FullNames == ListsUpTo({"a", "b", " ", "\t"}, MaxName) \cup {Name_spaced}

NormNamePayloads ==
    {Entry(K_mseDate, Str(Date_iso)) \o Entry(k, Str(x)) :
        k \in {K_fullName, full_name}, x \in FullNames}
    \cup {Entry(K_mseDate, Str(Date_iso)) \o Entry(K_fullName, Null)}

NormPayloads ==
    {a \o b : a \in NormExamEntries, b \in NormFieldEntries}
    \cup NormDatePayloads \cup NormAliasPayloads \cup NormTextPayloads
    \cup NormNamePayloads \cup NormTypedDatePayloads

----------------------------------------------------------------------------
(* State *)

NoCall == [op |-> "none"]

DefaultSettings ==
    [bureau_count |-> 42, excluded_bureaus |-> <<25, 26, 27, 31, 41>>,
     experts |-> <<1, 2, 3, 5, 8, 9>>]

InitStore ==
    /\ records = EmptyDict
    /\ id_seq = 0
    /\ response = NoCall

\* The pool as created with the default settings (db_pool_max), no call running.
InitPool ==
    /\ pool = [size |-> 50, free |-> 50]
    /\ calls = <<>>

InitMapper ==
    /\ map_args = NoCall
    /\ map_result = NoCall
    /\ InitPool

InitIdle ==
    /\ workbook = <<>>
    /\ export_response = NoCall
    /\ record_data = <<>>
    /\ normalized = NoCall
    /\ InitMapper

Init ==
    /\ InitStore
    /\ InitIdle
    /\ bureau_count = DefaultSettings.bureau_count
    /\ excluded_bureaus = DefaultSettings.excluded_bureaus
    /\ experts = DefaultSettings.experts

\* A call of create_or_update_record(bureau, items, record_id) by a caller
\* that holds no unanswered call.
Answer(op, bureau, items, record_id, r) ==
    /\ r.seq <= MaxSeq
    /\ records' = r.table
    /\ id_seq' = r.seq
    /\ response' = [op |-> op, bureau_number |-> bureau,
                    record_data |-> items, record_id |-> record_id,
                    status |-> r.status, detail |-> r.detail, result |-> r.result]

CreateOrUpdateRecord(bureau, items, record_id) ==
    Answer("create_or_update_record", bureau, items, record_id,
           create_or_update_record(records, id_seq, bureau, items, record_id))

\* POST /api/records
CreateOrUpdateRecordEndpoint(bureau, items, record_id) ==
    Answer("create_or_update_record_endpoint", bureau, items, record_id,
           create_or_update_record_endpoint(records, id_seq, bureau, items, record_id))

\* delete_record(record_id): the DELETE always reports "DELETE n".
DeleteRecord(record_id) ==
    /\ records' = sql_delete(records, record_id)
    /\ id_seq' = id_seq
    /\ response' = [op |-> "delete_record", record_id |-> IntV(record_id),
                    status |-> 200, result |-> TRUE]

\* The caller takes the answer; the next call can be made.
TakeResponse ==
    /\ response # NoCall
    /\ response' = NoCall
    /\ UNCHANGED <<records, id_seq>>

\* A caller makes one call at a time: the next call follows the answer.
Next ==
    \/ /\ response = NoCall
       /\ \E b \in StoreUnits, items \in StorePayloads, rid \in StoreRecordIds :
             CreateOrUpdateRecord(b, items, rid)
       /\ UNCHANGED <<settings_vars, export_vars, norm_vars, mapper_vars, pool_vars>>
    \/ /\ response = NoCall
       /\ \E b \in StoreUnits, items \in StorePayloads, rid \in StoreRecordIds :
             CreateOrUpdateRecordEndpoint(b, items, rid)
       /\ UNCHANGED <<settings_vars, export_vars, norm_vars, mapper_vars, pool_vars>>
    \/ /\ response = NoCall
       /\ \E n \in 1..(MaxSeq + 1) : DeleteRecord(n)
       /\ UNCHANGED <<settings_vars, export_vars, norm_vars, mapper_vars, pool_vars>>
    \/ /\ TakeResponse
       /\ UNCHANGED <<settings_vars, export_vars, norm_vars, mapper_vars, pool_vars>>

Spec == Init /\ [][Next]_vars

----------------------------------------------------------------------------
(* Claims about the record store, checked under Spec *)

SaveOps == {"create_or_update_record", "create_or_update_record_endpoint"}

\* The examination date a payload gives, read by field name in either
\* naming convention: the value of the last such key, None when there is none.
ExamDateKeys == {K_mseDate, mse_date}

RECURSIVE ExamDateGiven(_)
ExamDateGiven(items) ==
    IF items = <<>> THEN Null
    ELSE IF items[Len(items)].key \in ExamDateKeys THEN items[Len(items)].value
    ELSE ExamDateGiven(SubSeq(items, 1, Len(items) - 1))

ExamDateAbsent(items) == NoneOrEmpty(ExamDateGiven(items))

\* The value a payload holds under one key, None when the key is absent.
ValueOfKey(items, key) ==
    IF \E i \in 1..Len(items) : items[i].key = key
    THEN items[CHOOSE i \in 1..Len(items) : items[i].key = key].value
    ELSE Null

\* C1: every persisted record has a non-null examination date, and a save
\* whose payload gives no examination date (absent, null or '') is refused
\* whatever else it holds, on the insert path and on the update path:
\* create_or_update_record answers 400, and so does the endpoint when the
\* request's "mseDate" is absent, null or ''; no such save ever succeeds.
C1_ExamDateRequired ==
    /\ \A r \in DOMAIN records : IsDate(records[r][mse_date])
    /\ (response.op = "create_or_update_record" /\ ExamDateAbsent(response.record_data))
          => response.status = 400
    /\ (response.op = "create_or_update_record_endpoint"
          /\ NoneOrEmpty(ValueOfKey(response.record_data, K_mseDate)))
          => response.status = 400
    /\ (response.op \in SaveOps /\ ExamDateAbsent(response.record_data))
          => response.status \in {400, 404}

\* An update of an existing record without examination date was refused
\* while a record is persisted.
C1_Witness ==
    /\ response.op = "create_or_update_record"
    /\ Truthy(response.record_id)
    /\ ExamDateAbsent(response.record_data)
    /\ response.status = 400
    /\ \E r \in DOMAIN records : records[r][id] = response.record_id

\* C2: the stored id of an existing record never changes.
C2_IdImmutable ==
    [][\A r \in (DOMAIN records) \cap (DOMAIN records') :
          records'[r][id] = records[r][id]]_vars

\* C3: the stored bureau_number of an existing record never changes.
C3_BureauNumberImmutable ==
    [][\A r \in (DOMAIN records) \cap (DOMAIN records') :
          records'[r][bureau_number] = records[r][bureau_number]]_vars

----------------------------------------------------------------------------
(* The normalisation alone: lines 654-706 applied to one payload *)

InitNorm ==
    /\ InitStore
    /\ workbook = <<>>
    /\ export_response = NoCall
    /\ bureau_count = DefaultSettings.bureau_count
    /\ excluded_bureaus = DefaultSettings.excluded_bureaus
    /\ experts = DefaultSettings.experts
    /\ record_data \in NormPayloads
    /\ normalized = NoCall
    /\ InitMapper

Normalized(n) ==
    /\ normalized = NoCall
    /\ normalized' = [op |-> "normalize", status |-> n.status,
                      data |-> IF n.status = 200 THEN n.data ELSE EmptyDict,
                      detail |-> IF n.status = 200 THEN [error |-> "none"] ELSE n.detail]
    /\ UNCHANGED <<record_data, store_vars, settings_vars, export_vars, mapper_vars, pool_vars>>

Normalize == Normalized(normalize(record_data))

NextNorm == Normalize

SpecNorm == InitNorm /\ [][NextNorm]_vars

\* A special-marks value as the data model wants it: null, or codes joined
\* by ',' with no empty token.
NoEmptyToken(x) ==
    \/ IsNull(x)
    \/ IsStr(x) /\ \A i \in 1..Len(split(x.v, ",")) : split(x.v, ",")[i] # <<>>

\* C4: every accepted payload stores special_marks as null or as a
\* comma-joined code list without empty tokens.
C4_SpecialMarksNoEmptyToken ==
    (normalized.op = "normalize" /\ normalized.status = 200)
        => NoEmptyToken(Get(normalized.data, special_marks))

----------------------------------------------------------------------------
(* get_records (lines 539-627), without search, limit and offset           *)

\* A filter that treats omo like any other unit.
unit_filter_any_unit(bureau) == bureau # <<>>

\* Line 554: the unit filter; None (no filter) is modelled as the empty string.
unit_filter(bureau) == bureau # <<>> /\ lower(bureau) # S_omo

selected_rows(table, bureau) ==
    {r \in DOMAIN table : unit_filter(bureau) => table[r][bureau_number] = Str(bureau)}

\* (y, m, d) later than or equal to (y2, m2, d2)
date_geq(a, b) ==
    \/ a[1] > b[1]
    \/ a[1] = b[1] /\ a[2] > b[2]
    \/ a[1] = b[1] /\ a[2] = b[2] /\ a[3] >= b[3]

\* All the orders in which the rows S can be listed.
RECURSIVE Orderings(_)
Orderings(S) ==
    IF S = {} THEN {<<>>}
    ELSE UNION {{<<x>> \o rest : rest \in Orderings(S \ {x})} : x \in S}

\* ORDER BY mse_date DESC: rows of equal date come in any order.
ordered_desc(table, order) ==
    \A i \in 1..(Len(order) - 1) :
        date_geq(table[order[i]][mse_date].v, table[order[i + 1]][mse_date].v)

\* Lines 571-622: the dict built for one row (the keys the report reads).
fetched(row) == [id |-> row[id].v, bureau_number |-> row[bureau_number].v]

\* The lists get_records may return.
get_records(table, bureau) ==
    {[i \in 1..Len(order) |-> fetched(table[order[i]])] :
        order \in {o \in Orderings(selected_rows(table, bureau)) : ordered_desc(table, o)}}

----------------------------------------------------------------------------
(* create_excel_worksheet (lines 900-1150)                                 *)

\* Lines 902-926: the 23 common headers; the first depends on the mode.
\* Headers and cells are named after the field each column shows.
common_headers(is_all_records) ==
    <<IF is_all_records THEN "source" ELSE "row_number",
      "full_name", "birth_date", "snils", "mse_date", "decision_date", "reg_date",
      "age_category", "special_marks", "military_registration", "document_format",
      "purpose", "mse_type", "mse_form", "mse_form_change",
      "prev_disability", "prev_disability_reason", "prev_disability_term",
      "current_disability", "current_disability_reason", "current_disability_term",
      "main_diagnosis", "pdo_developed">>

\* Lines 934-940 and 942-946
expert_headers ==
    <<"procedure_type", "decision_changed_part", "tsr_changed", "sfr_appeal", "changed">>

bureau_headers == <<"ipra_direction", "ipra_contains_tsr", "ipra_changes">>

\* record.get("bureau_number", ""): a record without the key reads as ''.
unit_of(record) == IF "bureau_number" \in DOMAIN record THEN record.bureau_number ELSE <<>>

\* Lines 928-931: the unit type of the sheet is that of its first record.
is_expert(batch) == batch # <<>> /\ startswith(unit_of(batch[1]), S_expert_)

headers(is_all_records, expert) ==
    common_headers(is_all_records) \o (IF expert THEN expert_headers ELSE bureau_headers)

\* Lines 973-980: the source label of the consolidated sheet.
source_label(bureau) ==
    IF startswith(bureau, S_bureau_) THEN [label |-> "bureau", number |-> split(bureau, "_")[2]]
    ELSE IF startswith(bureau, S_expert_)
    THEN [label |-> "expert", number |-> split(bureau, "_")[2]]
    ELSE [label |-> "raw", number |-> bureau]

\* Lines 986-1086: columns 2..23 of a data row, by the field each one shows.
common_cells == Tail(common_headers(FALSE))

\* Lines 1088-1125: the suffix columns written follow the sheet's unit type.
suffix_cells(expert) == IF expert THEN expert_headers ELSE bureau_headers

\* Lines 970-1125: one data row; row_num starts at 2.
data_row(record, row_num, is_all_records, expert) ==
    [kind |-> "data", record |-> record.id, bureau_number |-> unit_of(record),
     cells |-> <<IF is_all_records THEN source_label(unit_of(record))
                 ELSE row_num - 1>>
               \o common_cells \o suffix_cells(expert)]

\* A placeholder row without its text.
placeholder_row_blank(n_columns) ==
    [kind |-> "placeholder", cells |-> [c \in 1..n_columns |-> ""]]

\* Lines 955-968: the single row of an empty batch.
placeholder_row(n_columns) ==
    [kind |-> "placeholder",
     cells |-> [c \in 1..n_columns |-> IF c = 1 THEN "no_records" ELSE ""]]

filled_sheet(title, batch, is_all_records, expert, head) ==
    IF batch = <<>>
    THEN [title |-> title, is_all_records |-> is_all_records, headers |-> head,
          rows |-> <<placeholder_row(Len(head))>>,
          widths |-> [c \in 1..Len(head) |-> 15],
          auto_filter |-> "none", freeze_panes |-> "none"]
    ELSE [title |-> title, is_all_records |-> is_all_records, headers |-> head,
          rows |-> [i \in 1..Len(batch) |-> data_row(batch[i], i + 1, is_all_records, expert)],
          widths |-> "auto",
          auto_filter |-> [first_row |-> 1, first_column |-> 1,
                           last_column |-> Len(head), last_row |-> Len(batch) + 1],
          freeze_panes |-> "A2"]

create_excel_worksheet(title, batch, is_all_records) ==
    filled_sheet(title, batch, is_all_records, is_expert(batch),
                 headers(is_all_records, is_expert(batch)))

----------------------------------------------------------------------------
(* create_excel_workbook (lines 1153-1195)                                 *)

\* Sheet titles, with the Cyrillic words transliterated letter for letter.
Title_all == <<"V", "s", "e", " ", "z", "a", "p", "i", "s", "i">>
Title_bureau == <<"B", "y", "u", "r", "o", " ", "#">>
Title_expert == <<"E", "S", " ", "#">>
Title_other == <<"Z", "a", "p", "i", "s", "i">>

\* title[:31]
MaxTitle == 31
truncated(title) == SubSeq(title, 1, IF Len(title) < MaxTitle THEN Len(title) ELSE MaxTitle)

\* An exclusion list that excludes nothing.
in_list_never(x, list) == FALSE

\* The list members of a settings list
in_list(x, list) == \E i \in 1..Len(list) : list[i] = x

\* A per-unit sheet that takes the whole batch.
of_unit_unfiltered(batch, unit) == batch

\* [r for r in records if r["bureau_number"] == unit]
of_unit(batch, unit) == SelectSeq(batch, LAMBDA r : r.bureau_number = unit)

\* Lines 1164-1172: one sheet per bureau number from i on, the excluded skipped.
RECURSIVE bureau_sheets(_, _, _, _)
bureau_sheets(batch, i, count, excluded) ==
    IF i > count THEN <<>>
    ELSE (IF in_list(i, excluded) THEN <<>>
          ELSE <<create_excel_worksheet(truncated(Title_bureau \o IntToStr(i)),
                                        of_unit(batch, bureau_id(i)), FALSE)>>)
         \o bureau_sheets(batch, i + 1, count, excluded)

\* The panel sheets created from the last configured panel to the first.
RECURSIVE expert_sheets_reversed(_, _)
expert_sheets_reversed(batch, panels) ==
    IF panels = <<>> THEN <<>>
    ELSE expert_sheets_reversed(batch, Tail(panels))
         \o <<create_excel_worksheet(truncated(Title_expert \o IntToStr(Head(panels))),
                                     of_unit(batch, expert_id(Head(panels))), FALSE)>>

\* Lines 1174-1179: one sheet per configured expert panel, in list order.
RECURSIVE expert_sheets(_, _)
expert_sheets(batch, panels) ==
    IF panels = <<>> THEN <<>>
    ELSE <<create_excel_worksheet(truncated(Title_expert \o IntToStr(Head(panels))),
                                  of_unit(batch, expert_id(Head(panels))), FALSE)>>
         \o expert_sheets(batch, Tail(panels))

\* Lines 1182-1187
single_title(selector) ==
    IF startswith(selector, S_bureau_) THEN truncated(Title_bureau \o split(selector, "_")[2])
    ELSE IF startswith(selector, S_expert_)
    THEN truncated(Title_expert \o split(selector, "_")[2])
    ELSE truncated(Title_other)

\* The sheets of the workbook, in creation order.
create_excel_workbook(batch, selector, count, excluded, panels) ==
    IF selector = S_all
    THEN <<create_excel_worksheet(Title_all, batch, TRUE)>>
         \o bureau_sheets(batch, 1, count, excluded)
         \o expert_sheets(batch, panels)
    ELSE <<create_excel_worksheet(single_title(selector), batch, FALSE)>>

----------------------------------------------------------------------------
(* The report: settings, stored records and GET /api/export/{bureau_number} *)

MaxBureaus == 2

S_OMO == <<"O", "M", "O">>
S_unit == <<"u", "n", "i", "t">>

\* Settings: the configured range of bureaus, an exclusion list (possibly
\* naming a bureau outside the range, or one bureau twice) and a list of panels.
WBBureauCounts == 0..MaxBureaus

WBExcluded == {<<>>, <<1>>, <<1, 1>>, <<MaxBureaus + 1>>}

WBExperts == {<<1>>, <<2, 1>>}

\* The units that file records and the payloads they file.
WBUnits == {bureau_id(1), bureau_id(2), expert_id(1), S_omo}

WBPayloads == {Entry(K_mseDate, Str(Date_iso)), Entry(K_mseDate, Str(Date_later))}

\* The selectors of the exports.
WBSelectors == {S_all, bureau_id(1), expert_id(1), expert_id(2), S_omo, S_OMO, S_unit}

InitWB ==
    /\ InitStore
    /\ InitIdle
    /\ bureau_count \in WBBureauCounts
    /\ excluded_bureaus \in WBExcluded
    /\ experts \in WBExperts

\* The answer of export_records: the workbook built from the fetched batch.
Exported(selector, batch, book) ==
    /\ workbook' = book
    /\ export_response' = [op |-> "export_records", bureau_number |-> selector,
                           records |-> batch, status |-> 200]

\* Lines 1407-1455; the search query is not given.
ExportRecords(selector) ==
    \E batch \in get_records(records, IF selector # S_all THEN selector ELSE <<>>) :
        Exported(selector, batch,
                 create_excel_workbook(batch, selector, bureau_count, excluded_bureaus,
                                       experts))

\* The caller takes the file.
TakeExport ==
    /\ export_response # NoCall
    /\ export_response' = NoCall
    /\ workbook' = <<>>

\* One caller at a time: the store does not change under a pending export.
NextWB ==
    \/ /\ response = NoCall
       /\ export_response = NoCall
       /\ \E b \in WBUnits, items \in WBPayloads : CreateOrUpdateRecord(b, items, Null)
       /\ UNCHANGED <<settings_vars, export_vars, norm_vars, mapper_vars, pool_vars>>
    \/ /\ TakeResponse
       /\ UNCHANGED <<settings_vars, export_vars, norm_vars, mapper_vars, pool_vars>>
    \/ /\ response = NoCall
       /\ export_response = NoCall
       /\ \E selector \in WBSelectors : ExportRecords(selector)
       /\ UNCHANGED <<store_vars, settings_vars, norm_vars, mapper_vars, pool_vars>>
    \/ /\ TakeExport
       /\ UNCHANGED <<store_vars, settings_vars, norm_vars, mapper_vars, pool_vars>>

SpecWB == InitWB /\ [][NextWB]_vars

----------------------------------------------------------------------------
(* Claims about the report, checked under SpecWB *)

ExportDone == export_response.op = "export_records"

ExpertUnit(unit) == startswith(unit, S_expert_)

DataRows(sheet) == SelectSeq(sheet.rows, LAMBDA row : row.kind = "data")

\* The ids of the records a sheet renders, row by row.
RowRecords(sheet) == [i \in 1..Len(DataRows(sheet)) |-> DataRows(sheet)[i].record]

Ids(batch) == [i \in 1..Len(batch) |-> batch[i].id]

\* The ids of the batch's records of one unit, in batch order.
IdsOfUnit(batch, unit) == Ids(SelectSeq(batch, LAMBDA r : r.bureau_number = unit))

StoredIds(units) == {records[r][id].v : r \in {x \in DOMAIN records : records[x][bureau_number].v \in units}}

AllUnits == {records[r][bureau_number].v : r \in DOMAIN records}

Range(f) == {f[i] : i \in DOMAIN f}

\* The suffix a row's own unit type calls for
SuffixOf(unit) == IF ExpertUnit(unit) THEN expert_headers ELSE bureau_headers

SheetSuffix(sheet) == SubSeq(sheet.headers, 24, Len(sheet.headers))

\* C5: in every sheet of every exported workbook, whatever the selector, all
\* the records rendered have the same unit type (all expert-panel, or all
\* bureau/omo), so the suffix chosen from the first record fits every row.
C5_SheetHomogeneity ==
    ExportDone =>
        \A k \in 1..Len(workbook) :
            \A i \in 1..Len(DataRows(workbook[k])) :
                /\ ExpertUnit(DataRows(workbook[k])[i].bureau_number)
                       = ExpertUnit(DataRows(workbook[k])[1].bureau_number)
                /\ SheetSuffix(workbook[k]) = SuffixOf(DataRows(workbook[k])[i].bureau_number)

SingleExport == ExportDone /\ export_response.bureau_number # S_all

\* Single-unit mode: column 1 of the i-th data row is i.
SingleUnitMode(sheet) ==
    /\ ~sheet.is_all_records
    /\ \A i \in 1..Len(DataRows(sheet)) : DataRows(sheet)[i].cells[1] = i

\* C6 as stated: with a selector other than "all" the workbook has exactly
\* one sheet, in single-unit mode, and every record on it has the selector
\* as its unit identifier.
C6_SingleSheetOnlySelectedUnit ==
    SingleExport =>
        /\ Len(workbook) = 1
        /\ SingleUnitMode(workbook[1])
        /\ \A i \in 1..Len(DataRows(workbook[1])) :
              DataRows(workbook[1])[i].bureau_number = export_response.bureau_number

\* The units whose records an export with this selector shows: the unit
\* itself, every unit for omo in any letter case.
UnitsShown(selector) == IF lower(selector) = S_omo THEN AllUnits ELSE {selector}

\* C6 amended: with a selector other than "all" the workbook has exactly one
\* sheet, in single-unit mode, holding exactly the records passed in, in
\* their order; export_records passes the stored records whose unit
\* identifier equals the selector, and every stored record when the selector
\* is omo (in any letter case).
C6_SingleSheetOfFetchedRecords ==
    SingleExport =>
        /\ Len(workbook) = 1
        /\ SingleUnitMode(workbook[1])
        /\ RowRecords(workbook[1]) = Ids(export_response.records)
        /\ Range(Ids(export_response.records)) = StoredIds(UnitsShown(export_response.bureau_number))
        /\ Len(export_response.records) = Cardinality(StoredIds(UnitsShown(export_response.bureau_number)))

C6_Witness ==
    /\ SingleExport
    /\ export_response.bureau_number = bureau_id(1)
    /\ Len(DataRows(workbook[1])) = 1
    /\ Cardinality(DOMAIN records) = 2

AllExport == ExportDone /\ export_response.bureau_number = S_all

\* The unit a per-unit sheet of the "all" export is made for, read from its title.
UnitOfTitle(title) ==
    IF startswith(title, Title_bureau)
    THEN S_bureau_ \o SubSeq(title, Len(Title_bureau) + 1, Len(title))
    ELSE S_expert_ \o SubSeq(title, Len(Title_expert) + 1, Len(title))

IncludedBureaus ==
    {i \in 1..bureau_count : \A j \in 1..Len(excluded_bureaus) : excluded_bureaus[j] # i}

ConfiguredUnits ==
    {bureau_id(i) : i \in IncludedBureaus} \cup {expert_id(experts[j]) : j \in 1..Len(experts)}

\* Consolidated mode: column 1 of every data row is a source label.
ConsolidatedMode(sheet) ==
    /\ sheet.is_all_records
    /\ \A i \in 1..Len(DataRows(sheet)) :
          DataRows(sheet)[i].cells[1] = source_label(DataRows(sheet)[i].bureau_number)

\* C7: with selector "all" the first sheet holds every input record in
\* consolidated mode; every other sheet is made for one configured unit and
\* holds exactly the input records of that unit, in input order, in
\* single-unit mode; every configured non-excluded bureau and every
\* configured panel has its sheet (possibly without records).
C7_SheetsPartitionByUnit ==
    AllExport =>
        /\ RowRecords(workbook[1]) = Ids(export_response.records)
        /\ ConsolidatedMode(workbook[1])
        /\ \A k \in 2..Len(workbook) :
              /\ UnitOfTitle(workbook[k].title) \in ConfiguredUnits
              /\ RowRecords(workbook[k])
                     = IdsOfUnit(export_response.records, UnitOfTitle(workbook[k].title))
              /\ SingleUnitMode(workbook[k])
        /\ \A unit \in ConfiguredUnits :
              \E k \in 2..Len(workbook) : UnitOfTitle(workbook[k].title) = unit

C7_Witness ==
    /\ AllExport
    /\ Len(export_response.records) = 2
    /\ Len(workbook) = 4
    /\ RowRecords(workbook[2]) = <<1>>
    /\ RowRecords(workbook[4]) = <<2>>
    /\ workbook[3].rows[1].kind = "placeholder"

\* C8 as stated: with selector "all" the workbook has
\* 1 + (bureau_count - number of excluded bureaus) + number of panels sheets.
C8_SheetCountByListLength ==
    AllExport => Len(workbook) = 1 + (bureau_count - Len(excluded_bureaus)) + Len(experts)

\* C8 amended: with selector "all" the workbook has one sheet for all the
\* records, one for each bureau number of 1..bureau_count that the exclusion
\* list does not name, and one for each entry of the panel list, whatever
\* the records; so the count is the same for every export under one
\* configuration.
C8_SheetCountByIncludedBureaus ==
    AllExport => Len(workbook) = 1 + Cardinality(IncludedBureaus) + Len(experts)

C8_Witness ==
    /\ AllExport
    /\ bureau_count = 2
    /\ excluded_bureaus = <<3>>
    /\ experts = <<2, 1>>
    /\ Len(workbook) = 5
    /\ Cardinality(DOMAIN records) = 2

\* The k-th smallest of a set of numbers
Kth(S, k) == CHOOSE i \in S : Cardinality({m \in S : m <= i}) = k

\* C9: with selector "all" the sheets are created in one order fixed by the
\* settings alone: the all-records sheet, then the bureau sheets by
\* ascending bureau number, then the panel sheets in the order of the
\* configured list.
C9_SheetOrder ==
    AllExport =>
        /\ Len(workbook) = 1 + Cardinality(IncludedBureaus) + Len(experts)
        /\ workbook[1].title = Title_all
        /\ \A k \in 1..Cardinality(IncludedBureaus) :
              workbook[1 + k].title = Title_bureau \o IntToStr(Kth(IncludedBureaus, k))
        /\ \A j \in 1..Len(experts) :
              workbook[1 + Cardinality(IncludedBureaus) + j].title
                  = Title_expert \o IntToStr(experts[j])

C9_Witness ==
    /\ AllExport
    /\ bureau_count = 2
    /\ excluded_bureaus = <<>>
    /\ experts = <<2, 1>>
    /\ Len(workbook) = 5
    /\ DOMAIN records # {}

\* The unit type a sheet is rendered for: that of the selector, and for the
\* per-unit sheets of the "all" export that of the sheet's unit.
ForExpertUnit(k) ==
    IF AllExport THEN ExpertUnit(UnitOfTitle(workbook[k].title))
    ELSE ExpertUnit(export_response.bureau_number)

UnitSheets == IF AllExport THEN 2..Len(workbook) ELSE 1..Len(workbook)

\* C10: a sheet rendered for an expert-panel unit has the 23 common headers
\* then the 5 expert-panel headers (28), a sheet rendered for a bureau or omo
\* unit has the 23 common headers then the 3 bureau headers (26), and every
\* data row has as many cells as the sheet has headers.
C10_ColumnLayout ==
    ExportDone =>
        \A k \in UnitSheets :
            /\ workbook[k].headers
                   = common_headers(FALSE)
                     \o (IF ForExpertUnit(k) THEN expert_headers ELSE bureau_headers)
            /\ Len(workbook[k].headers) = (IF ForExpertUnit(k) THEN 28 ELSE 26)
            /\ \A i \in 1..Len(DataRows(workbook[k])) :
                  Len(DataRows(workbook[k])[i].cells) = Len(workbook[k].headers)

\* The last row a sheet uses: the header row and one row per row written.
LastUsedRow(sheet) == 1 + Len(sheet.rows)

\* C11: every sheet of every exported workbook, whether its batch is empty
\* or not and in either mode, has its panes frozen at A2 and an auto-filter
\* from A1 to the last header column and the last used row.
C11_HeaderFrozenAndFiltered ==
    ExportDone =>
        \A k \in 1..Len(workbook) :
            /\ workbook[k].freeze_panes = "A2"
            /\ workbook[k].auto_filter
                   = [first_row |-> 1, first_column |-> 1,
                      last_column |-> Len(workbook[k].headers),
                      last_row |-> LastUsedRow(workbook[k])]

\* The ids of the records sheet k is built from: the fetched batch for the
\* single sheet and the consolidated sheet, the batch's records of the
\* sheet's unit for a per-unit sheet of the "all" export.
SheetBatch(k) ==
    IF AllExport /\ k > 1
    THEN IdsOfUnit(export_response.records, UnitOfTitle(workbook[k].title))
    ELSE Ids(export_response.records)

\* The rows below the header of a sheet built from an empty batch: one
\* row, "no records" in column 1 and an empty cell under every other header.
PlaceholderOnly(sheet) ==
    /\ Len(sheet.rows) = 1
    /\ sheet.rows[1].kind = "placeholder"
    /\ Len(sheet.rows[1].cells) = Len(sheet.headers)
    /\ sheet.rows[1].cells[1] = "no_records"
    /\ \A c \in 2..Len(sheet.headers) : sheet.rows[1].cells[c] = ""

\* C12: a sheet built from an empty batch has exactly two rows, the header
\* row and one placeholder row reading "no records" in its first cell, and
\* width 15 on every header column, in both modes and for every unit type;
\* so an export of one unit with no matching records is a workbook of one
\* sheet whose only row below the header is the placeholder.
C12_EmptyBatchPlaceholder ==
    ExportDone =>
        /\ \A k \in 1..Len(workbook) :
              SheetBatch(k) = <<>> =>
                  /\ PlaceholderOnly(workbook[k])
                  /\ LastUsedRow(workbook[k]) = 2
                  /\ workbook[k].widths = [c \in 1..Len(workbook[k].headers) |-> 15]
        /\ (SingleExport /\ StoredIds({export_response.bureau_number}) = {}
                /\ lower(export_response.bureau_number) # S_omo)
               => (Len(workbook) = 1 /\ PlaceholderOnly(workbook[1]))

C12_Witness ==
    /\ SingleExport
    /\ export_response.bureau_number = expert_id(2)
    /\ Cardinality(DOMAIN records) = 2
    /\ Len(workbook) = 1
    /\ workbook[1].rows[1].kind = "placeholder"

----------------------------------------------------------------------------
(* create_excel_workbook step by step: what the workbook holds when a      *)
(* step raises, and what export_records answers (lines 1153-1195,          *)
(* 1432-1455)                                                              *)

\* The characters openpyxl refuses in a sheet title (create_sheet raises
\* ValueError).
InvalidTitleChars == {"\\", "*", "?", ":", "/", "[", "]"}

title_ok(title) == \A i \in 1..Len(title) : title[i] \notin InvalidTitleChars

\* r["bureau_number"] raises KeyError on a record without the key.
has_unit(record) == "bureau_number" \in DOMAIN record

comprehension_raises(batch) == \E i \in 1..Len(batch) : ~has_unit(batch[i])

\* A sheet created and not yet rendered.
blank_sheet(title) ==
    [title |-> title, is_all_records |-> FALSE, headers |-> <<>>, rows |-> <<>>,
     widths |-> "none", auto_filter |-> "none", freeze_panes |-> "none"]

\* Lines 1160-1162 and 1189-1190: the first sheet, created and rendered.
first_sheet(title, batch, is_all_records) ==
    IF ~title_ok(title) THEN [raised |-> TRUE, sheets |-> <<>>]
    ELSE [raised |-> FALSE, sheets |-> <<create_excel_worksheet(title, batch, is_all_records)>>]

\* Lines 1164-1179: the sheets still to make, as (title, unit) pairs.
RECURSIVE bureau_plan(_, _, _)
bureau_plan(i, count, excluded) ==
    IF i > count THEN <<>>
    ELSE (IF in_list(i, excluded) THEN <<>>
          ELSE <<[title |-> truncated(Title_bureau \o IntToStr(i)), unit |-> bureau_id(i)]>>)
         \o bureau_plan(i + 1, count, excluded)

expert_plan(panels) ==
    [j \in 1..Len(panels) |->
        [title |-> truncated(Title_expert \o IntToStr(panels[j])), unit |-> expert_id(panels[j])]]

\* One pass of a loop body: create the sheet, select the unit's records,
\* render them.
unit_sheet(a, batch, p) ==
    IF ~title_ok(p.title) THEN [raised |-> TRUE, sheets |-> a.sheets]
    ELSE IF comprehension_raises(batch)
    THEN [raised |-> TRUE, sheets |-> Append(a.sheets, blank_sheet(p.title))]
    ELSE [raised |-> FALSE,
          sheets |-> Append(a.sheets,
                            create_excel_worksheet(p.title, of_unit(batch, p.unit), FALSE))]

\* The loops stop at the first step that raises.
RECURSIVE unit_sheets(_, _, _)
unit_sheets(a, batch, plan) ==
    IF a.raised \/ plan = <<>> THEN a
    ELSE unit_sheets(unit_sheet(a, batch, Head(plan)), batch, Tail(plan))

\* The workbook object when create_excel_workbook returns or raises.
assemble(batch, selector, count, excluded, panels) ==
    IF selector = S_all
    THEN unit_sheets(first_sheet(Title_all, batch, TRUE), batch,
                     bureau_plan(1, count, excluded) \o expert_plan(panels))
    ELSE first_sheet(single_title(selector), batch, FALSE)

\* An answer that hands out whatever the workbook holds.
export_answer_partial(a) == [status |-> 200, content |-> a.sheets]

\* Lines 1192-1195 and 1432-1455: the buffer is saved and returned only
\* when nothing raised; export_records turns any exception into a 500.
export_answer(a) ==
    IF a.raised THEN [status |-> 500, content |-> <<>>]
    ELSE [status |-> 200, content |-> a.sheets]

\* Settings, units and selectors of the assembly specification.  The
\* selector bureau_* has a title the workbook refuses.
AsmSettings ==
    {[bureau_count |-> 0, excluded_bureaus |-> <<>>, experts |-> <<>>],
     [bureau_count |-> 1, excluded_bureaus |-> <<>>, experts |-> <<1>>],
     [bureau_count |-> 2, excluded_bureaus |-> <<1>>, experts |-> <<>>]}

AsmUnits == {bureau_id(1), expert_id(1)}

AsmPayloads == {Entry(K_mseDate, Str(Date_iso))}

S_bureau_star == S_bureau_ \o <<"*">>

AsmSelectors == {S_all, bureau_id(1), expert_id(1), S_bureau_star}

\* Records handed to create_excel_workbook by a direct caller: with or
\* without the bureau_number key.
AsmRecords ==
    {[id |-> 1, bureau_number |-> bureau_id(1)], [id |-> 2, bureau_number |-> expert_id(1)],
     [id |-> 3]}

AsmBatches == ListsUpTo(AsmRecords, 2)

InitAsm ==
    /\ InitStore
    /\ InitIdle
    /\ \E s \in AsmSettings :
          /\ bureau_count = s.bureau_count
          /\ excluded_bureaus = s.excluded_bureaus
          /\ experts = s.experts

Assembled(op, selector, batch, answer) ==
    /\ workbook' = answer.content
    /\ export_response' = [op |-> op, bureau_number |-> selector, records |-> batch,
                           status |-> answer.status]

\* A direct call of create_excel_workbook(batch, selector), reported as the
\* export would report it.
CreateExcelWorkbook(batch, selector) ==
    Assembled("create_excel_workbook", selector, batch,
              export_answer(assemble(batch, selector, bureau_count, excluded_bureaus,
                                     experts)))

\* GET /api/export/{selector} with its failure path.
ExportRecordsOrFail(selector) ==
    \E batch \in get_records(records, IF selector # S_all THEN selector ELSE <<>>) :
        Assembled("export_records", selector, batch,
                  export_answer(assemble(batch, selector, bureau_count, excluded_bureaus,
                                         experts)))

NextAsm ==
    \/ /\ response = NoCall
       /\ export_response = NoCall
       /\ \E b \in AsmUnits, items \in AsmPayloads : CreateOrUpdateRecord(b, items, Null)
       /\ UNCHANGED <<settings_vars, export_vars, norm_vars, mapper_vars, pool_vars>>
    \/ /\ TakeResponse
       /\ UNCHANGED <<settings_vars, export_vars, norm_vars, mapper_vars, pool_vars>>
    \/ /\ response = NoCall
       /\ export_response = NoCall
       /\ \E selector \in AsmSelectors : ExportRecordsOrFail(selector)
       /\ UNCHANGED <<store_vars, settings_vars, norm_vars, mapper_vars, pool_vars>>
    \/ /\ response = NoCall
       /\ export_response = NoCall
       /\ \E batch \in AsmBatches, selector \in AsmSelectors :
             CreateExcelWorkbook(batch, selector)
       /\ UNCHANGED <<store_vars, settings_vars, norm_vars, mapper_vars, pool_vars>>
    \/ /\ TakeExport
       /\ UNCHANGED <<store_vars, settings_vars, norm_vars, mapper_vars, pool_vars>>

SpecAsm == InitAsm /\ [][NextAsm]_vars

----------------------------------------------------------------------------
(* Claims about the assembly, checked under SpecAsm *)

AssemblyDone == export_response.op \in {"export_records", "create_excel_workbook"}

\* Some step of the assembly raises: the title of the first sheet is
\* refused, or a per-unit sheet is to be made from a batch holding a record
\* without the bureau_number key.
SomeSheetRaises ==
    IF export_response.bureau_number = S_all
    THEN /\ Cardinality(IncludedBureaus) + Len(experts) > 0
         /\ \E i \in 1..Len(export_response.records) :
               "bureau_number" \notin DOMAIN export_response.records[i]
    ELSE \E i \in 1..Len(export_response.bureau_number) :
            export_response.bureau_number[i] \in InvalidTitleChars

\* Every sheet the selector calls for is there and rendered.
WholeWorkbook ==
    /\ Len(workbook)
           = (IF export_response.bureau_number = S_all
              THEN 1 + Cardinality(IncludedBureaus) + Len(experts) ELSE 1)
    /\ \A k \in 1..Len(workbook) :
          /\ Len(workbook[k].headers) \in {26, 28}
          /\ Len(workbook[k].rows) >= 1

\* C13: the assembly is all-or-nothing: when a step of it raises, the
\* answer is an error (500) that carries no workbook; an answer that
\* carries a workbook carries every sheet, rendered.
C13_AllOrNothing ==
    AssemblyDone =>
        /\ SomeSheetRaises => (export_response.status = 500 /\ workbook = <<>>)
        /\ export_response.status = 200 => WholeWorkbook
        /\ export_response.status # 200 => workbook = <<>>

C13_Witness ==
    /\ export_response.op = "create_excel_workbook"
    /\ export_response.bureau_number = S_all
    /\ export_response.records = <<[id |-> 1, bureau_number |-> bureau_id(1)], [id |-> 3]>>
    /\ bureau_count = 1
    /\ export_response.status = 500
    /\ workbook = <<>>

----------------------------------------------------------------------------
(* Claims about date fields, checked under SpecNorm *)

NormalizeDone == normalized.op = "normalize"

\* C14: for every calendar date d, each of the three accepted formats and
\* each of the four date fields, normalising the string that writes d in
\* that format stores the date d in the field: the result does not depend
\* on the format, and the normalisation does not fail on that field.
C14_DateFormatIndependent ==
    NormalizeDone =>
        \A k \in DateKeys, d \in NormDates, i \in 1..3 :
            ValueOfKey(record_data, k.key) = Str(Written(d, i)) =>
                /\ normalized.status = 200
                /\ normalized.data[k.column] = DateV(d[1], d[2], d[3])

C14_Witness ==
    /\ NormalizeDone
    /\ ValueOfKey(record_data, K_birthDate) = Str(Written(<<2024, 12, 1>>, 3))
    /\ normalized.status = 200
    /\ normalized.data[birth_date] = DateV(2024, 12, 1)

\* C15: for each of the four date fields, a non-empty string that is a date
\* in none of the three accepted formats makes the normalisation fail with
\* 400, the detail naming the field and carrying the raw value; nothing is
\* stored in its place.
C15_UnparsableDateRefused ==
    NormalizeDone =>
        \A k \in DateKeys :
            (IsStr(ValueOfKey(record_data, k.key))
                /\ ValueOfKey(record_data, k.key).v \in UnparsableDates)
            => /\ normalized.status = 400
               /\ normalized.detail.error = "bad_date_format"
               /\ normalized.detail.field = k.key
               /\ normalized.detail.raw = ValueOfKey(record_data, k.key)

C15_Witness ==
    /\ NormalizeDone
    /\ ValueOfKey(record_data, K_regDate) = Str(<<"3", "1", "/", "1", "2", "/", "2", "0", "2", "4">>)
    /\ normalized.status = 400
    /\ normalized.detail.field = K_regDate

----------------------------------------------------------------------------
(* Claims about the other fields, checked under SpecNorm *)

NormalizedOK == NormalizeDone /\ normalized.status = 200

\* The codes of a list separated by commas, in list order.
RECURSIVE CommaJoined(_)
CommaJoined(codes) ==
    IF codes = <<>> THEN <<>>
    ELSE IF Len(codes) = 1 THEN codes[1]
    ELSE codes[1] \o <<",">> \o CommaJoined(Tail(codes))

\* The special marks a payload gives, under either spelling of the key.
MarksGiven ==
    IF \E i \in 1..Len(record_data) : record_data[i].key = K_specialMarks
    THEN ValueOfKey(record_data, K_specialMarks)
    ELSE ValueOfKey(record_data, special_marks)

\* The stored special marks when a record holding the value x is normalised.
MarksStoredFor(x) ==
    normalize(Entry(K_mseDate, Str(Date_iso)) \o Entry(special_marks, x)).data[special_marks]

\* C16: a non-empty list of codes is stored as the codes joined with ',' in
\* list order, an empty list as null, a comma-joined string unchanged; and
\* normalising the stored value again yields the same value.
C16_SpecialMarksNormalization ==
    NormalizedOK =>
        /\ (IsList(MarksGiven) /\ MarksGiven.v # <<>>)
               => normalized.data[special_marks] = Str(CommaJoined(MarksGiven.v))
        /\ (IsList(MarksGiven) /\ MarksGiven.v = <<>>)
               => normalized.data[special_marks] = Null
        /\ (IsStr(MarksGiven) /\ MarksGiven.v # <<>>)
               => normalized.data[special_marks] = MarksGiven
        /\ special_marks \in DOMAIN normalized.data
               => MarksStoredFor(normalized.data[special_marks])
                      = normalized.data[special_marks]

\* The value of the last entry of a payload whose key is one of keys.
RECURSIVE LastGiven(_, _)
LastGiven(items, keys) ==
    IF items = <<>> THEN Null
    ELSE IF items[Len(items)].key \in keys THEN items[Len(items)].value
    ELSE LastGiven(SubSeq(items, 1, Len(items) - 1), keys)

\* A value as an other-than-date field stores it: '' and null as null.
EmptyAsNull(x) == IF NoneOrEmpty(x) THEN Null ELSE x

\* C17: expertDocumentFormat, expertPurpose and pdoDevelopedExpert fill
\* document_format, purpose and pdo_developed; when a payload holds an
\* alias and the field's own key, the field stores the value of whichever
\* of the two comes later in the payload.
C17_AliasPrecedence ==
    NormalizeDone =>
        \A f \in AliasedFields :
            (\E i \in 1..Len(record_data) : record_data[i].key = f.alias)
            => /\ normalized.status = 200
               /\ Get(normalized.data, f.column)
                      = EmptyAsNull(LastGiven(record_data, f.keys \cup {f.alias}))
               /\ snake_key(f.alias) \notin DOMAIN normalized.data

C17_Witness ==
    /\ NormalizedOK
    /\ record_data = Entry(K_mseDate, Str(Date_iso))
                     \o Entry(K_expertPurpose, Str(V_paper))
                     \o Entry(purpose, Str(V_electronic))
    /\ normalized.data[purpose] = Str(V_electronic)

\* The column a payload key fills.
ColumnOf(key) == snake_key(canonical_key(key))

\* Entry i is the last entry of the payload for its column.
LastForColumn(i) ==
    \A j \in (i + 1)..Len(record_data) :
        ColumnOf(record_data[j].key) # ColumnOf(record_data[i].key)

\* The entries of the payload whose column is none of excepted and whose
\* value is no list are stored with '' and null as null and every other
\* value unchanged.
StoredAsGiven(excepted) ==
    \A i \in 1..Len(record_data) :
        (/\ ColumnOf(record_data[i].key) \notin excepted
         /\ ~IsList(record_data[i].value)
         /\ LastForColumn(i))
        => Get(normalized.data, ColumnOf(record_data[i].key))
               = EmptyAsNull(record_data[i].value)

\* C18 as stated: every field that is no date field and no list-valued
\* special marks stores '' and null as null and a non-empty value unchanged.
C18_OtherFieldsUnchanged == NormalizedOK => StoredAsGiven(DateFields)

\* C18 amended: every field that is no date field, no list-valued special
\* marks and not the full name stores '' and null as null and a non-empty
\* value unchanged; the full name is stored with its whitespace collapsed.
C18_OtherFieldsButNameUnchanged == NormalizedOK => StoredAsGiven(DateFields \cup {full_name})

C18_Witness ==
    /\ NormalizedOK
    /\ record_data = Entry(K_mseDate, Str(Date_iso)) \o Entry(K_documentFormat, Str(<<>>))
    /\ normalized.data[document_format] = Null

\* The full name a payload gives, under either spelling of the key.
NameGiven ==
    IF \E i \in 1..Len(record_data) : record_data[i].key = K_fullName
    THEN ValueOfKey(record_data, K_fullName)
    ELSE ValueOfKey(record_data, full_name)

\* The words of a string: its maximal runs of characters other than the
\* space and the tab, from left to right.
WordStarts(s) ==
    {i \in 1..Len(s) : s[i] \notin {" ", "\t"} /\ (i = 1 \/ s[i - 1] \in {" ", "\t"})}

WordEnd(s, i) ==
    CHOOSE j \in i..Len(s) :
        /\ \A m \in i..j : s[m] \notin {" ", "\t"}
        /\ (j = Len(s) \/ s[j + 1] \in {" ", "\t"})

Words(s) ==
    [k \in 1..Cardinality(WordStarts(s)) |->
        SubSeq(s, Kth(WordStarts(s), k), WordEnd(s, Kth(WordStarts(s), k)))]

\* No whitespace at either end, and between words one space only.
SingleSpaced(s) ==
    /\ s # <<>> => (s[1] # " " /\ s[Len(s)] # " ")
    /\ \A i \in 1..Len(s) : s[i] # "\t"
    /\ \A i \in 1..(Len(s) - 1) : ~(s[i] = " " /\ s[i + 1] = " ")

\* The stored full name when a record holding the name x is normalised.
NameStoredFor(x) ==
    normalize(Entry(K_mseDate, Str(Date_iso)) \o Entry(full_name, x)).data[full_name]

NameNormalized(given, stored) ==
    /\ IsStr(stored)
    /\ SingleSpaced(stored.v)
    /\ Words(stored.v) = Words(given.v)
    /\ NameStoredFor(stored) = stored

\* C19: for every non-empty full name, the stored full_name has no leading
\* or trailing whitespace and single spaces between its words, its words
\* are those of the input in order, and normalising the stored name again
\* gives the same stored name.
C19_FullNameNormalization ==
    (NormalizedOK /\ IsStr(NameGiven) /\ NameGiven.v # <<>>)
        => NameNormalized(NameGiven, normalized.data[full_name])

----------------------------------------------------------------------------
(* Value mappings: the code tables of lines 239-421 and get_value_mappings *)
(* (lines 893-897).  Field names are strings; codes and labels are Python  *)
(* strings, the Russian labels written in Latin transliteration.           *)

\* COMMON_VALUE_MAPPINGS, lines 239-326.
COMMON_VALUE_MAPPINGS ==
    [age_category |->
        (<<"a", "d", "u", "l", "t">> :>
            <<"V", "z", "r", "o", "s", "l", "y", "e">>) @@
        (<<"c", "h", "i", "l", "d">> :>
            <<"D", "e", "t", "i">>),
     special_marks |->
        (<<"a", "m", "p", "u", "t", "e", "e">> :>
            <<"A", "m", "p", "u", "t", "a", "n", "t">>) @@
        (<<"p", "r", "i", "s", "o", "n", "e", "r">> :>
            <<"L", "i", "t", "s", "o", ",", " ", "n", "a", "k", "h", "o", "d", "y", "a", "s", "h", "c", "h", "e", "e", "s", "y", "a", " ", "v", " ", "m", "e", "s", "t", "a", "k", "h", " ", "l", "i", "s", "h", "e", "n", "i", "y", "a", " ", "s", "v", "o", "b", "o", "d", "y">>) @@
        (<<"p", "n", "i">> :>
            <<"L", "i", "t", "s", "o", ",", " ", "n", "a", "k", "h", "o", "d", "y", "a", "s", "h", "c", "h", "e", "e", "s", "y", "a", " ", "v", " ", "P", "N", "I", " ", "(", "D", "D", "I", ")">>) @@
        (<<"o", "t", "h", "e", "r", "_", "i", "n", "s", "t", "i", "t", "u", "t", "i", "o", "n">> :>
            <<"L", "i", "t", "s", "o", ",", " ", "n", "a", "k", "h", "o", "d", "y", "a", "s", "h", "c", "h", "e", "e", "s", "y", "a", " ", "v", " ", "d", "r", "u", "g", "i", "k", "h", " ", "s", "t", "a", "t", "s", "i", "o", "n", "a", "r", "n", "y", "k", "h", " ", "u", "c", "h", "r", "e", "z", "h", "d", "e", "n", "i", "y", "a", "k", "h", " ", "s", "o", "t", "s", "z", "a", "s", "h", "c", "h", "i", "t", "y">>) @@
        (<<"p", "a", "l", "l", "i", "a", "t", "i", "v", "e">> :>
            <<"N", "u", "z", "h", "d", "a", "y", "u", "s", "h", "c", "h", "i", "y", "s", "y", "a", " ", "v", " ", "p", "a", "l", "l", "i", "a", "t", "i", "v", "n", "o", "y", " ", "p", "o", "m", "o", "s", "h", "c", "h", "i">>) @@
        (<<"n", "e", "w", "_", "r", "e", "g", "i", "o", "n">> :>
            <<"Z", "H", "i", "t", "e", "l", " ", "n", "o", "v", "y", "k", "h", " ", "r", "e", "g", "i", "o", "n", "o", "v">>) @@
        (<<"s", "v", "o">> :>
            <<"U", "c", "h", "a", "s", "t", "n", "i", "k", " ", "S", "V", "O">>),
     military_registration |->
        (<<"r", "e", "g", "i", "s", "t", "e", "r", "e", "d">> :>
            <<"S", "o", "s", "t", "o", "y", "a", "s", "h", "c", "h", "i", "y", " ", "n", "a", " ", "v", "o", "i", "n", "s", "k", "o", "m", " ", "u", "c", "h", "e", "t", "e">>) @@
        (<<"o", "b", "l", "i", "g", "e", "d">> :>
            <<"N", "e", " ", "s", "o", "s", "t", "o", "y", "a", "s", "h", "c", "h", "i", "y", " ", "n", "a", " ", "v", "o", "i", "n", "s", "k", "o", "m", " ", "u", "c", "h", "e", "t", "e", ",", " ", "n", "o", " ", "o", "b", "y", "a", "z", "a", "n", "n", "y", "y", " ", "s", "o", "s", "t", "o", "y", "a", "t">>) @@
        (<<"a", "p", "p", "l", "y", "i", "n", "g">> :>
            <<"P", "o", "s", "t", "u", "p", "a", "y", "u", "s", "h", "c", "h", "i", "y", " ", "n", "a", " ", "v", "o", "i", "n", "s", "k", "i", "y", " ", "u", "c", "h", "e", "t">>) @@
        (<<"n", "o", "t", "_", "r", "e", "g", "i", "s", "t", "e", "r", "e", "d">> :>
            <<"N", "e", " ", "s", "o", "s", "t", "o", "y", "a", "s", "h", "c", "h", "i", "y", " ", "n", "a", " ", "v", "o", "i", "n", "s", "k", "o", "m", " ", "u", "c", "h", "e", "t", "e">>),
     mse_form |->
        (<<"i", "n", "_", "p", "e", "r", "s", "o", "n">> :>
            <<"O", "c", "h", "n", "o">>) @@
        (<<"i", "n", "_", "a", "b", "s", "e", "n", "t", "i", "a">> :>
            <<"Z", "a", "o", "c", "h", "n", "o">>),
     mse_form_change |->
        (<<"v">> :>
            <<"V">>) @@
        (<<"g">> :>
            <<"G">>) @@
        (<<"d">> :>
            <<"D">>) @@
        (<<"e">> :>
            <<"E">>) @@
        (<<"z", "h">> :>
            <<"Z", "H">>),
     prev_disability |->
        (<<"f", "i", "r", "s", "t">> :>
            <<"P", "e", "r", "v", "a", "y", "a">>) @@
        (<<"s", "e", "c", "o", "n", "d">> :>
            <<"V", "t", "o", "r", "a", "y", "a">>) @@
        (<<"t", "h", "i", "r", "d">> :>
            <<"T", "r", "e", "t", "y", "a">>) @@
        (<<"k", "r", "i">> :>
            <<"K", "R", "I">>) @@
        (<<"n", "o", "t", "_", "s", "e", "t">> :>
            <<"I", "n", "v", "a", "l", "i", "d", "n", "o", "s", "t", " ", "n", "e", " ", "u", "s", "t", "a", "n", "o", "v", "l", "e", "n", "a">>) @@
        (<<"s", "u", "p", "t", "_", "s", "e", "t">> :>
            <<"U", "s", "t", "a", "n", "o", "v", "l", "e", "n", "i", "e", " ", "S", "U", "P", "T">>) @@
        (<<"s", "u", "p", "t", "_", "n", "o", "t", "_", "s", "e", "t">> :>
            <<"S", "U", "P", "T", " ", "n", "e", " ", "u", "s", "t", "a", "n", "o", "v", "l", "e", "n", "a">>),
     prev_disability_reason |->
        (<<"g", "e", "n", "e", "r", "a", "l", "_", "d", "i", "s", "e", "a", "s", "e">> :>
            <<"O", "b", "s", "h", "c", "h", "e", "e", " ", "z", "a", "b", "o", "l", "e", "v", "a", "n", "i", "e">>) @@
        (<<"c", "h", "i", "l", "d", "h", "o", "o", "d">> :>
            <<"I", "n", "v", "a", "l", "i", "d", "n", "o", "s", "t", " ", "s", " ", "d", "e", "t", "s", "t", "v", "a">>) @@
        (<<"p", "r", "o", "f", "e", "s", "s", "i", "o", "n", "a", "l", "_", "d", "i", "s", "e", "a", "s", "e">> :>
            <<"P", "r", "o", "f", "e", "s", "s", "i", "o", "n", "a", "l", "n", "o", "e", " ", "z", "a", "b", "o", "l", "e", "v", "a", "n", "i", "e">>) @@
        (<<"w", "o", "r", "k", "_", "i", "n", "j", "u", "r", "y">> :>
            <<"T", "r", "u", "d", "o", "v", "o", "e", " ", "u", "v", "e", "c", "h", "e">>) @@
        (<<"m", "i", "l", "i", "t", "a", "r", "y", "_", "i", "n", "j", "u", "r", "y">> :>
            <<"V", "o", "e", "n", "n", "a", "y", "a", " ", "t", "r", "a", "v", "m", "a">>) @@
        (<<"m", "i", "l", "i", "t", "a", "r", "y", "_", "s", "e", "r", "v", "i", "c", "e">> :>
            <<"Z", "a", "b", "o", "l", "e", "v", "a", "n", "i", "e", " ", "p", "o", "l", "u", "c", "h", "e", "n", "o", " ", "v", " ", "p", "e", "r", "i", "o", "d", " ", "v", "o", "e", "n", "n", "o", "y", " ", "s", "l", "u", "z", "h", "b", "y">>) @@
        (<<"o", "t", "h", "e", "r">> :>
            <<"D", "r", "u", "g", "o", "e">>),
     prev_disability_term |->
        (<<"1", "_", "y", "e", "a", "r">> :>
            <<"1", " ", "g", "o", "d">>) @@
        (<<"2", "_", "y", "e", "a", "r", "s">> :>
            <<"2", " ", "g", "o", "d", "a">>) @@
        (<<"5", "_", "y", "e", "a", "r", "s">> :>
            <<"5", " ", "l", "e", "t">>) @@
        (<<"u", "n", "t", "i", "l", "_", "1", "4">> :>
            <<"D", "o", " ", "1", "4", " ", "l", "e", "t">>) @@
        (<<"u", "n", "t", "i", "l", "_", "1", "8">> :>
            <<"D", "o", " ", "1", "8", " ", "l", "e", "t">>) @@
        (<<"i", "n", "d", "e", "f", "i", "n", "i", "t", "e", "l", "y">> :>
            <<"B", "e", "s", "s", "r", "o", "c", "h", "n", "o">>),
     current_disability |->
        (<<"f", "i", "r", "s", "t">> :>
            <<"P", "e", "r", "v", "a", "y", "a">>) @@
        (<<"s", "e", "c", "o", "n", "d">> :>
            <<"V", "t", "o", "r", "a", "y", "a">>) @@
        (<<"t", "h", "i", "r", "d">> :>
            <<"T", "r", "e", "t", "y", "a">>) @@
        (<<"k", "r", "i">> :>
            <<"K", "R", "I">>) @@
        (<<"n", "o", "t", "_", "s", "e", "t">> :>
            <<"I", "n", "v", "a", "l", "i", "d", "n", "o", "s", "t", " ", "n", "e", " ", "u", "s", "t", "a", "n", "o", "v", "l", "e", "n", "a">>) @@
        (<<"s", "u", "p", "t", "_", "s", "e", "t">> :>
            <<"U", "s", "t", "a", "n", "o", "v", "l", "e", "n", "i", "e", " ", "S", "U", "P", "T">>) @@
        (<<"s", "u", "p", "t", "_", "n", "o", "t", "_", "s", "e", "t">> :>
            <<"S", "U", "P", "T", " ", "n", "e", " ", "u", "s", "t", "a", "n", "o", "v", "l", "e", "n", "a">>),
     current_disability_reason |->
        (<<"g", "e", "n", "e", "r", "a", "l", "_", "d", "i", "s", "e", "a", "s", "e">> :>
            <<"O", "b", "s", "h", "c", "h", "e", "e", " ", "z", "a", "b", "o", "l", "e", "v", "a", "n", "i", "e">>) @@
        (<<"c", "h", "i", "l", "d", "h", "o", "o", "d">> :>
            <<"I", "n", "v", "a", "l", "i", "d", "n", "o", "s", "t", " ", "s", " ", "d", "e", "t", "s", "t", "v", "a">>) @@
        (<<"p", "r", "o", "f", "e", "s", "s", "i", "o", "n", "a", "l", "_", "d", "i", "s", "e", "a", "s", "e">> :>
            <<"P", "r", "o", "f", "e", "s", "s", "i", "o", "n", "a", "l", "n", "o", "e", " ", "z", "a", "b", "o", "l", "e", "v", "a", "n", "i", "e">>) @@
        (<<"w", "o", "r", "k", "_", "i", "n", "j", "u", "r", "y">> :>
            <<"T", "r", "u", "d", "o", "v", "o", "e", " ", "u", "v", "e", "c", "h", "e">>) @@
        (<<"m", "i", "l", "i", "t", "a", "r", "y", "_", "i", "n", "j", "u", "r", "y">> :>
            <<"V", "o", "e", "n", "n", "a", "y", "a", " ", "t", "r", "a", "v", "m", "a">>) @@
        (<<"m", "i", "l", "i", "t", "a", "r", "y", "_", "s", "e", "r", "v", "i", "c", "e">> :>
            <<"Z", "a", "b", "o", "l", "e", "v", "a", "n", "i", "e", " ", "p", "o", "l", "u", "c", "h", "e", "n", "o", " ", "v", " ", "p", "e", "r", "i", "o", "d", " ", "v", "o", "e", "n", "n", "o", "y", " ", "s", "l", "u", "z", "h", "b", "y">>) @@
        (<<"o", "t", "h", "e", "r">> :>
            <<"D", "r", "u", "g", "o", "e">>),
     current_disability_term |->
        (<<"1", "_", "y", "e", "a", "r">> :>
            <<"1", " ", "g", "o", "d">>) @@
        (<<"2", "_", "y", "e", "a", "r", "s">> :>
            <<"2", " ", "g", "o", "d", "a">>) @@
        (<<"5", "_", "y", "e", "a", "r", "s">> :>
            <<"5", " ", "l", "e", "t">>) @@
        (<<"u", "n", "t", "i", "l", "_", "1", "4">> :>
            <<"D", "o", " ", "1", "4", " ", "l", "e", "t">>) @@
        (<<"u", "n", "t", "i", "l", "_", "1", "8">> :>
            <<"D", "o", " ", "1", "8", " ", "l", "e", "t">>) @@
        (<<"i", "n", "d", "e", "f", "i", "n", "i", "t", "e", "l", "y">> :>
            <<"B", "e", "s", "s", "r", "o", "c", "h", "n", "o">>),
     pdo_developed |->
        (<<"c", "o", "n", "s", "e", "n", "t">> :>
            <<"P", "o", "l", "u", "c", "h", "e", "n", "o", " ", "s", "o", "g", "l", "a", "s", "i", "e">>) @@
        (<<"r", "e", "f", "u", "s", "a", "l">> :>
            <<"O", "t", "k", "a", "z">>)]

\* BUREAU_VALUE_MAPPINGS, lines 328-373.
BUREAU_VALUE_MAPPINGS ==
    [document_format |->
        (<<"p", "a", "p", "e", "r", "_", "d", "i", "r", "e", "c", "t", "i", "o", "n">> :>
            <<"N", "a", "p", "r", "a", "v", "l", "e", "n", "i", "e", " ", "b", "u", "m", "a", "z", "h", "n", "o", "e">>) @@
        (<<"e", "l", "e", "c", "t", "r", "o", "n", "i", "c", "_", "d", "i", "r", "e", "c", "t", "i", "o", "n">> :>
            <<"N", "a", "p", "r", "a", "v", "l", "e", "n", "i", "e", " ", "v", " ", "e", "l", "e", "k", "t", "r", "o", "n", "n", "o", "m", " ", "v", "i", "d", "e">>) @@
        (<<"p", "a", "p", "e", "r", "_", "a", "p", "p", "l", "i", "c", "a", "t", "i", "o", "n">> :>
            <<"Z", "a", "y", "a", "v", "l", "e", "n", "i", "e", " ", "b", "u", "m", "a", "z", "h", "n", "o", "e">>) @@
        (<<"e", "p", "g", "u">> :>
            <<"Z", "a", "y", "a", "v", "l", "e", "n", "i", "e", " ", "E", "P", "G", "U">>),
     purpose |->
        (<<"d", "i", "s", "a", "b", "i", "l", "i", "t", "y", "_", "g", "r", "o", "u", "p">> :>
            <<"G", "r", "u", "p", "p", "a", " ", "i", "n", "v", "a", "l", "i", "d", "n", "o", "s", "t", "i">>) @@
        (<<"d", "i", "s", "a", "b", "l", "e", "d", "_", "c", "h", "i", "l", "d">> :>
            <<"K", "a", "t", "e", "g", "o", "r", "i", "y", "a", " ", "'", "r", "e", "b", "e", "n", "o", "k", "-", "i", "n", "v", "a", "l", "i", "d", "'">>) @@
        (<<"d", "i", "s", "a", "b", "i", "l", "i", "t", "y", "_", "r", "e", "a", "s", "o", "n">> :>
            <<"P", "r", "i", "c", "h", "i", "n", "a", " ", "i", "n", "v", "a", "l", "i", "d", "n", "o", "s", "t", "i">>) @@
        (<<"d", "i", "s", "a", "b", "i", "l", "i", "t", "y", "_", "t", "e", "r", "m">> :>
            <<"S", "r", "o", "k", " ", "i", "n", "v", "a", "l", "i", "d", "n", "o", "s", "t", "i">>) @@
        (<<"s", "u", "p", "t">> :>
            <<"O", "p", "r", "e", "d", "e", "l", "e", "n", "i", "e", " ", "S", "U", "P", "T">>) @@
        (<<"i", "p", "r", "a", "_", "d", "e", "v", "e", "l", "o", "p", "m", "e", "n", "t">> :>
            <<"R", "a", "z", "r", "a", "b", "o", "t", "k", "a", " ", "I", "P", "R", "A">>) @@
        (<<"p", "r", "p", "_", "d", "e", "v", "e", "l", "o", "p", "m", "e", "n", "t">> :>
            <<"R", "a", "z", "r", "a", "b", "o", "t", "k", "a", " ", "P", "R", "P">>) @@
        (<<"d", "e", "a", "t", "h", "_", "r", "e", "a", "s", "o", "n">> :>
            <<"O", "p", "r", "e", "d", "e", "l", "e", "n", "i", "e", " ", "p", "r", "i", "c", "h", "i", "n", "y", " ", "s", "m", "e", "r", "t", "i">>) @@
        (<<"c", "a", "r", "e", "_", "n", "e", "e", "d">> :>
            <<"O", "p", "r", "e", "d", "e", "l", "e", "n", "i", "e", " ", "n", "u", "z", "h", "d", "a", "e", "m", "o", "s", "t", "i", " ", "v", " ", "p", "o", "s", "t", "o", "y", "a", "n", "n", "o", "m", " ", "p", "o", "s", "t", "o", "r", "o", "n", "n", "e", "m", " ", "u", "k", "h", "o", "d", "e">>) @@
        (<<"n", "e", "w", "_", "c", "e", "r", "t", "i", "f", "i", "c", "a", "t", "e">> :>
            <<"V", "y", "d", "a", "c", "h", "a", " ", "n", "o", "v", "o", "y", " ", "s", "p", "r", "a", "v", "k", "i", " ", "o", "b", " ", "i", "n", "v", "a", "l", "i", "d", "n", "o", "s", "t", "i">>) @@
        (<<"d", "u", "p", "l", "i", "c", "a", "t", "e", "_", "c", "e", "r", "t", "i", "f", "i", "c", "a", "t", "e">> :>
            <<"V", "y", "d", "a", "c", "h", "a", " ", "d", "u", "b", "l", "i", "k", "a", "t", "a", " ", "s", "p", "r", "a", "v", "k", "i", " ", "o", "b", " ", "i", "n", "v", "a", "l", "i", "d", "n", "o", "s", "t", "i">>) @@
        (<<"n", "e", "w", "_", "s", "u", "p", "t", "_", "c", "e", "r", "t", "i", "f", "i", "c", "a", "t", "e">> :>
            <<"V", "y", "d", "a", "c", "h", "a", " ", "n", "o", "v", "o", "y", " ", "s", "p", "r", "a", "v", "k", "i", " ", "o", " ", "S", "U", "P", "T">>) @@
        (<<"d", "u", "p", "l", "i", "c", "a", "t", "e", "_", "s", "u", "p", "t", "_", "c", "e", "r", "t", "i", "f", "i", "c", "a", "t", "e">> :>
            <<"V", "y", "d", "a", "c", "h", "a", " ", "d", "u", "b", "l", "i", "k", "a", "t", "a", " ", "s", "p", "r", "a", "v", "k", "i", " ", "o", " ", "S", "U", "P", "T">>) @@
        (<<"i", "p", "r", "a", "_", "c", "h", "a", "n", "g", "e", "s">> :>
            <<"V", "n", "e", "s", "e", "n", "i", "e", " ", "i", "z", "m", "e", "n", "e", "n", "i", "y", " ", "v", " ", "I", "P", "R", "A">>) @@
        (<<"p", "r", "p", "_", "c", "h", "a", "n", "g", "e", "s">> :>
            <<"V", "n", "e", "s", "e", "n", "i", "e", " ", "i", "z", "m", "e", "n", "e", "n", "i", "y", " ", "v", " ", "P", "R", "P">>),
     mse_type |->
        (<<"p", "r", "i", "m", "a", "r", "y">> :>
            <<"P", "e", "r", "v", "i", "c", "h", "n", "o">>) @@
        (<<"r", "e", "p", "e", "a", "t">> :>
            <<"P", "o", "v", "t", "o", "r", "n", "o">>) @@
        (<<"e", "a", "r", "l", "y", "_", "r", "e", "p", "e", "a", "t">> :>
            <<"P", "o", "v", "t", "o", "r", "n", "o", " ", "(", "d", "o", "s", "r", "o", "c", "h", "n", "o", ")">>),
     ipra_direction |->
        (<<"r", "e", "g", "u", "l", "a", "r">> :>
            <<"V", " ", "o", "c", "h", "e", "r", "e", "d", "n", "o", "y", " ", "s", "r", "o", "k">>) @@
        (<<"e", "x", "c", "l", "u", "s", "i", "v", "e", "l", "y">> :>
            <<"I", "s", "k", "l", "y", "u", "c", "h", "i", "t", "e", "l", "n", "o", " ", "d", "l", "y", "a", " ", "r", "a", "z", "r", "a", "b", "o", "t", "k", "i", " ", "I", "P", "R", "A">>) @@
        (<<"h", "e", "a", "l", "t", "h", "_", "c", "h", "a", "n", "g", "e">> :>
            <<"I", "z", "m", "e", "n", "e", "n", "i", "e", " ", "s", "o", "s", "t", "o", "y", "a", "n", "i", "y", "a", " ", "z", "d", "o", "r", "o", "v", "y", "a", " ", "(", "p", "o", "v", "t", "o", "r", "n", "o", " ", "d", "o", "s", "r", "o", "c", "h", "n", "o", ")">>),
     ipra_contains_tsr |->
        (<<"y", "e", "s">> :>
            <<"D", "a">>) @@
        (<<"n", "o">> :>
            <<"N", "e", "t">>),
     ipra_changes |->
        (<<"a", "n", "t", "h", "r", "o", "p", "o", "m", "e", "t", "r", "i", "c">> :>
            <<"A", "n", "t", "r", "o", "p", "o", "m", "e", "t", "r", "i", "c", "h", "e", "s", "k", "i", "e", " ", "d", "a", "n", "n", "y", "e">>) @@
        (<<"p", "e", "r", "s", "o", "n", "a", "l">> :>
            <<"P", "e", "r", "s", "o", "n", "a", "l", "n", "y", "e", " ", "d", "a", "n", "n", "y", "e">>) @@
        (<<"t", "s", "r", "_", "s", "p", "e", "c", "s">> :>
            <<"U", "t", "o", "c", "h", "n", "e", "n", "i", "e", " ", "t", "e", "k", "h", "n", "i", "c", "h", "e", "s", "k", "i", "k", "h", " ", "k", "h", "a", "r", "a", "k", "t", "e", "r", "i", "s", "t", "i", "k", " ", "T", "S", "R">>) @@
        (<<"e", "r", "r", "o", "r", "s">> :>
            <<"I", "s", "p", "r", "a", "v", "l", "e", "n", "i", "e", " ", "t", "e", "k", "h", "n", "i", "c", "h", "e", "s", "k", "i", "k", "h", " ", "o", "s", "h", "i", "b", "o", "k">>) @@
        (<<"m", "a", "t", "e", "r", "n", "a", "l", "_", "c", "a", "p", "i", "t", "a", "l">> :>
            <<"M", "a", "t", "e", "r", "i", "n", "s", "k", "i", "y", " ", "k", "a", "p", "i", "t", "a", "l">>)]

\* EXPERT_VALUE_MAPPINGS, lines 375-421.
EXPERT_VALUE_MAPPINGS ==
    [document_format |->
        (<<"p", "a", "p", "e", "r", "_", "a", "p", "p", "l", "i", "c", "a", "t", "i", "o", "n">> :>
            <<"Z", "a", "y", "a", "v", "l", "e", "n", "i", "e", " ", "b", "u", "m", "a", "z", "h", "n", "o", "e">>) @@
        (<<"e", "p", "g", "u">> :>
            <<"Z", "a", "y", "a", "v", "l", "e", "n", "i", "e", " ", "E", "P", "G", "U">>),
     procedure_type |->
        (<<"a", "p", "p", "e", "a", "l">> :>
            <<"O", "b", "z", "h", "a", "l", "o", "v", "a", "n", "i", "e">>) @@
        (<<"c", "o", "n", "t", "r", "o", "l">> :>
            <<"K", "o", "n", "t", "r", "o", "l">>) @@
        (<<"p", "d", "o">> :>
            <<"P", "D", "O">>),
     purpose |->
        (<<"d", "i", "s", "a", "b", "i", "l", "i", "t", "y", "_", "g", "r", "o", "u", "p">> :>
            <<"G", "r", "u", "p", "p", "a", " ", "i", "n", "v", "a", "l", "i", "d", "n", "o", "s", "t", "i">>) @@
        (<<"d", "i", "s", "a", "b", "l", "e", "d", "_", "c", "h", "i", "l", "d">> :>
            <<"K", "a", "t", "e", "g", "o", "r", "i", "y", "a", " ", "r", "e", "b", "e", "n", "o", "k", "-", "i", "n", "v", "a", "l", "i", "d">>) @@
        (<<"d", "i", "s", "a", "b", "i", "l", "i", "t", "y", "_", "r", "e", "a", "s", "o", "n">> :>
            <<"P", "r", "i", "c", "h", "i", "n", "a", " ", "i", "n", "v", "a", "l", "i", "d", "n", "o", "s", "t", "i">>) @@
        (<<"d", "i", "s", "a", "b", "i", "l", "i", "t", "y", "_", "t", "e", "r", "m">> :>
            <<"S", "r", "o", "k", " ", "i", "n", "v", "a", "l", "i", "d", "n", "o", "s", "t", "i">>) @@
        (<<"s", "u", "p", "t">> :>
            <<"O", "p", "r", "e", "d", "e", "l", "e", "n", "i", "e", " ", "S", "U", "P", "T">>) @@
        (<<"c", "a", "r", "e", "_", "n", "e", "e", "d">> :>
            <<"O", "p", "r", "e", "d", "e", "l", "e", "n", "i", "e", " ", "n", "u", "z", "h", "d", "a", "e", "m", "o", "s", "t", "i", " ", "v", " ", "p", "o", "s", "t", "o", "r", "o", "n", "n", "e", "m", " ", "u", "k", "h", "o", "d", "e">>) @@
        (<<"d", "e", "a", "t", "h", "_", "r", "e", "a", "s", "o", "n">> :>
            <<"O", "p", "r", "e", "d", "e", "l", "e", "n", "i", "e", " ", "p", "r", "i", "c", "h", "i", "n", "y", " ", "s", "m", "e", "r", "t", "i">>) @@
        (<<"i", "p", "r", "a", "_", "d", "e", "v", "e", "l", "o", "p", "m", "e", "n", "t">> :>
            <<"R", "a", "z", "r", "a", "b", "o", "t", "k", "a", " ", "I", "P", "R", "A">>) @@
        (<<"p", "r", "p", "_", "d", "e", "v", "e", "l", "o", "p", "m", "e", "n", "t">> :>
            <<"R", "a", "z", "r", "a", "b", "o", "t", "k", "a", " ", "P", "R", "P">>) @@
        (<<"o", "t", "h", "e", "r">> :>
            <<"I", "n", "o", "e">>),
     mse_type |->
        (<<"p", "r", "i", "m", "a", "r", "y">> :>
            <<"P", "e", "r", "v", "i", "c", "h", "n", "o">>) @@
        (<<"r", "e", "p", "e", "a", "t">> :>
            <<"P", "o", "v", "t", "o", "r", "n", "o">>) @@
        (<<"e", "a", "r", "l", "y", "_", "r", "e", "p", "e", "a", "t">> :>
            <<"P", "o", "v", "t", "o", "r", "n", "o", " ", "(", "d", "o", "s", "r", "o", "c", "h", "n", "o", ")">>),
     decision_changed_part |->
        (<<"d", "i", "s", "a", "b", "i", "l", "i", "t", "y", "_", "g", "r", "o", "u", "p">> :>
            <<"G", "r", "u", "p", "p", "y", " ", "i", "n", "v", "a", "l", "i", "d", "n", "o", "s", "t", "i">>) @@
        (<<"d", "i", "s", "a", "b", "l", "e", "d", "_", "c", "h", "i", "l", "d">> :>
            <<"K", "a", "t", "e", "g", "o", "r", "i", "i", " ", "r", "e", "b", "e", "n", "o", "k", "-", "i", "n", "v", "a", "l", "i", "d">>) @@
        (<<"d", "i", "s", "a", "b", "i", "l", "i", "t", "y", "_", "t", "e", "r", "m">> :>
            <<"S", "r", "o", "k", "a", " ", "i", "n", "v", "a", "l", "i", "d", "n", "o", "s", "t", "i">>) @@
        (<<"d", "i", "s", "a", "b", "i", "l", "i", "t", "y", "_", "r", "e", "a", "s", "o", "n">> :>
            <<"P", "r", "i", "c", "h", "i", "n", "y", " ", "i", "n", "v", "a", "l", "i", "d", "n", "o", "s", "t", "i">>) @@
        (<<"i", "p", "r", "a", "_", "d", "e", "v", "e", "l", "o", "p", "m", "e", "n", "t">> :>
            <<"R", "a", "z", "r", "a", "b", "o", "t", "k", "i", " ", "I", "P", "R", "A">>) @@
        (<<"s", "u", "p", "t">> :>
            <<"S", "t", "e", "p", "e", "n", "i", " ", "U", "P", "T">>) @@
        (<<"p", "r", "p", "_", "d", "e", "v", "e", "l", "o", "p", "m", "e", "n", "t">> :>
            <<"P", "R", "P">>) @@
        (<<"o", "t", "h", "e", "r">> :>
            <<"D", "r", "u", "g", "i", "e">>),
     tsr_changed |->
        (<<"y", "e", "s">> :>
            <<"D", "a">>),
     sfr_appeal |->
        (<<"y", "e", "s">> :>
            <<"D", "a">>),
     changed |->
        (<<"y", "e", "s">> :>
            <<"D", "a">>)]

\* {**a, **b}: the keys of both, a key of b taking b's value.
overlay(a, b) ==
    [f \in (DOMAIN a) \cup (DOMAIN b) |-> IF f \in DOMAIN b THEN b[f] ELSE a[f]]

\* get_value_mappings with the prefix test left out: every unit gets the
\* bureau table.
get_value_mappings_bureau_only(bureau) ==
    overlay(COMMON_VALUE_MAPPINGS, BUREAU_VALUE_MAPPINGS)

get_value_mappings(bureau) ==
    IF startswith(bureau, S_expert_)
    THEN overlay(COMMON_VALUE_MAPPINGS, EXPERT_VALUE_MAPPINGS)
    ELSE overlay(COMMON_VALUE_MAPPINGS, BUREAU_VALUE_MAPPINGS)

(* map_value, lines 871-890 *)

\* c in s
contains(s, c) == \E i \in 1..Len(s) : s[i] = c

\* mapping.get(code, "") in place of mapping.get(code, code).
label_of_blank_unknown(mapping, code) ==
    IF code \in DOMAIN mapping THEN mapping[code] ELSE <<>>

\* mapping.get(code, code)
label_of(mapping, code) ==
    IF code \in DOMAIN mapping THEN mapping[code] ELSE code

\* The comprehension of lines 881-885 without the two strip() calls of
\* line 882.
RECURSIVE mapped_tokens_untrimmed(_, _)
mapped_tokens_untrimmed(mapping, tokens) ==
    IF tokens = <<>> THEN <<>>
    ELSE IF strip(Head(tokens)) # <<>>
         THEN <<label_of(mapping, Head(tokens))>>
                  \o mapped_tokens_untrimmed(mapping, Tail(tokens))
         ELSE mapped_tokens_untrimmed(mapping, Tail(tokens))

\* [mapping.get(v.strip(), v.strip()) for v in tokens if v.strip()]
RECURSIVE mapped_tokens(_, _)
mapped_tokens(mapping, tokens) ==
    IF tokens = <<>> THEN <<>>
    ELSE IF strip(Head(tokens)) # <<>>
         THEN <<label_of(mapping, strip(Head(tokens)))>>
                  \o mapped_tokens(mapping, Tail(tokens))
         ELSE mapped_tokens(mapping, Tail(tokens))

S_comma_space == <<",", " ">>

\* Lines 878-888 with "" returned for a field that is not in the mappings.
mapped_with_blank_unmapped(mappings, field_name, value) ==
    IF field_name \in DOMAIN mappings
    THEN IF contains(value.v, ",")
         THEN Str(join(S_comma_space, mapped_tokens(mappings[field_name], split(value.v, ","))))
         ELSE Str(label_of(mappings[field_name], value.v))
    ELSE Str(<<>>)

\* Lines 878-890: the value looked up in the mappings already resolved.
mapped_with(mappings, field_name, value) ==
    IF field_name \in DOMAIN mappings
    THEN IF contains(value.v, ",")
         THEN Str(join(S_comma_space, mapped_tokens(mappings[field_name], split(value.v, ","))))
         ELSE Str(label_of(mappings[field_name], value.v))
    ELSE value

\* value is None or a str (the mapped columns are VARCHAR or TEXT).
map_value(bureau, field_name, value) ==
    IF ~Truthy(value) THEN Str(<<>>)
    ELSE mapped_with(get_value_mappings(bureau), field_name, value)

(* get_value_mappings and map_value alone, applied to one set of           *)
(* arguments.  The stored bureau_number is whatever string the caller of   *)
(* the store sent, so the identifiers include near misses of the expert    *)
(* prefix.                                                                 *)

S_expert == <<"e", "x", "p", "e", "r", "t">>
S_Expert_ == <<"E", "x", "p", "e", "r", "t", "_">>

MapPrefixes ==
    {S_expert_, S_bureau_, S_omo, <<>>, S_expert, S_Expert_, <<" ">> \o S_expert_,
     S_bureau_ \o S_expert_}

MapSuffixes ==
    {<<>>, <<"1">>, <<"2">>, <<"3">>, <<"1", "0">>, <<"0", "1">>, <<"_">>, <<"x">>,
     S_expert_, S_omo}

MapUnits == {p \o s : p \in MapPrefixes, s \in MapSuffixes}

Code_bogus == <<"b", "o", "g", "u", "s", "_", "c", "o", "d", "e">>
Code_paper_direction ==
    <<"p", "a", "p", "e", "r", "_", "d", "i", "r", "e", "c", "t", "i", "o", "n">>

\* Most comma-separated tokens in a raw value.
MaxCodes == 2

\* Tokens of a raw value: codes of the common table and of the bureau table,
\* a code of no table, a code with blanks around it, a blank and an empty
\* token.
MapTokens ==
    {Code_amputee, Code_svo, Code_bogus, Code_paper_direction,
     <<" ">> \o Code_svo \o <<" ">>, <<" ">>, <<>>}

\* Raw values as a VARCHAR column yields them: NULL or a string.
MapValues == {Null} \cup {Str(join(<<",">>, l)) : l \in ListsUpTo(MapTokens, MaxCodes)}

\* Field names: of the common table, of both unit-type tables, of the expert
\* table only, of the bureau table only, and of no table.
MapFields ==
    {"special_marks", "age_category", "document_format", "procedure_type", "ipra_changes",
     "main_diagnosis", "specialMarks", ""}

MapValueUnits == {bureau_id(1), bureau_id(2), expert_id(1), expert_id(2), S_omo, <<>>}

MapArgs ==
    {[bureau_number |-> u, field_name |-> "age_category", value |-> Null] : u \in MapUnits}
        \cup {[bureau_number |-> u, field_name |-> f, value |-> v] :
                  u \in MapValueUnits, f \in MapFields, v \in MapValues}

InitMap ==
    /\ InitStore
    /\ workbook = <<>>
    /\ export_response = NoCall
    /\ record_data = <<>>
    /\ normalized = NoCall
    /\ bureau_count = DefaultSettings.bureau_count
    /\ excluded_bureaus = DefaultSettings.excluded_bureaus
    /\ experts = DefaultSettings.experts
    /\ map_args \in MapArgs
    /\ map_result = NoCall
    /\ InitPool

GotValueMappings(mappings) ==
    /\ map_result = NoCall
    /\ map_result' = [op |-> "get_value_mappings", mappings |-> mappings]
    /\ UNCHANGED <<map_args, store_vars, settings_vars, export_vars, norm_vars, pool_vars>>

GetValueMappings == GotValueMappings(get_value_mappings(map_args.bureau_number))

MappedValue(value) ==
    /\ map_result = NoCall
    /\ map_result' = [op |-> "map_value", value |-> value]
    /\ UNCHANGED <<map_args, store_vars, settings_vars, export_vars, norm_vars, pool_vars>>

MapValue == MappedValue(map_value(map_args.bureau_number, map_args.field_name, map_args.value))

NextMap == GetValueMappings \/ MapValue

SpecMap == InitMap /\ [][NextMap]_vars

\* get_value_mappings has answered.
MappingsResolved == map_result # NoCall /\ map_result.op = "get_value_mappings"

\* The table of the unit's type: the expert table for an identifier that
\* starts with "expert_", the bureau table for every other identifier.
UnitTypeTable(unit) ==
    IF ExpertUnit(unit) THEN EXPERT_VALUE_MAPPINGS ELSE BUREAU_VALUE_MAPPINGS

\* The answer is the common table overlaid with the table t.
OverlaidWith(mappings, t) ==
    /\ DOMAIN mappings = (DOMAIN COMMON_VALUE_MAPPINGS) \cup (DOMAIN t)
    /\ \A f \in DOMAIN t : mappings[f] = t[f]
    /\ \A f \in (DOMAIN COMMON_VALUE_MAPPINGS) \ (DOMAIN t) :
          mappings[f] = COMMON_VALUE_MAPPINGS[f]

\* C20: the mappings resolved for a unit identifier are the common table
\* overlaid with the expert table when the identifier starts with "expert_"
\* and with the bureau table otherwise ("omo" included): a field of the
\* unit-type table has that table's whole code map, a field only in the
\* common table has the common code map, and every identifier of the same
\* unit type resolves to the same mappings.
C20_MappingsByUnitType ==
    MappingsResolved =>
        /\ OverlaidWith(map_result.mappings, UnitTypeTable(map_args.bureau_number))
        /\ \A u \in MapUnits :
              ExpertUnit(u) = ExpertUnit(map_args.bureau_number)
                  => get_value_mappings(u) = map_result.mappings

\* An expert unit resolved: document_format has the expert table's two
\* codes, not the bureau table's four, and age_category is the common one.
C20_Witness ==
    /\ MappingsResolved
    /\ map_args.bureau_number = expert_id(1)
    /\ map_result.mappings["document_format"] = EXPERT_VALUE_MAPPINGS["document_format"]
    /\ map_result.mappings["document_format"] # BUREAU_VALUE_MAPPINGS["document_format"]
    /\ map_result.mappings["age_category"] = COMMON_VALUE_MAPPINGS["age_category"]

----------------------------------------------------------------------------
(* Claims about map_value *)

\* map_value has answered.
ValueMapped == map_result # NoCall /\ map_result.op = "map_value"

\* Field names of the bureau-flavoured and of the expert-flavoured taxonomy.
BureauTaxonomyFields == (DOMAIN COMMON_VALUE_MAPPINGS) \cup (DOMAIN BUREAU_VALUE_MAPPINGS)
ExpertTaxonomyFields == (DOMAIN COMMON_VALUE_MAPPINGS) \cup (DOMAIN EXPERT_VALUE_MAPPINGS)

\* map_value was asked about a field that neither taxonomy has.
UnmappedFieldAsked ==
    /\ ValueMapped
    /\ map_args.field_name \notin BureauTaxonomyFields \cup ExpertTaxonomyFields

\* C21 as stated: for every unit identifier, every field name absent from
\* both taxonomies and every raw value, map_value returns the raw value
\* unchanged.
C21_PassThroughAllValues ==
    UnmappedFieldAsked => map_result.value = map_args.value

\* C21, amended: for every unit identifier and every field name absent from
\* both taxonomies, map_value returns a raw value that is not null unchanged,
\* and returns the empty string for a null raw value.
C21_PassThroughNonNull ==
    UnmappedFieldAsked =>
        IF IsNull(map_args.value) THEN map_result.value = Str(<<>>)
        ELSE map_result.value = map_args.value

\* A raw value with a comma and a known code passed through unchanged for a
\* field of no taxonomy.
C21_Witness ==
    /\ UnmappedFieldAsked
    /\ map_args.field_name = "main_diagnosis"
    /\ map_args.value = Str(Code_amputee \o <<",">> \o Code_bogus)
    /\ map_result.value = map_args.value

\* The code map map_value resolves for the field asked about.
ResolvedMapping(args) ==
    (IF ExpertUnit(args.bureau_number) THEN overlay(COMMON_VALUE_MAPPINGS, EXPERT_VALUE_MAPPINGS)
     ELSE overlay(COMMON_VALUE_MAPPINGS, BUREAU_VALUE_MAPPINGS))[args.field_name]

\* map_value was asked about a field of the taxonomy resolved for the unit.
MappedFieldAsked ==
    /\ ValueMapped
    /\ map_args.field_name \in
          (IF ExpertUnit(map_args.bureau_number) THEN ExpertTaxonomyFields
           ELSE BureauTaxonomyFields)

NonEmptyToken(token) == token # <<>>

\* The tokens of a raw value between its commas, trimmed, the empty ones
\* dropped, in their order.
KeptTokens(raw) ==
    SelectSeq([i \in 1..Len(split(raw, ",")) |-> strip(split(raw, ",")[i])], NonEmptyToken)

\* Every token replaced by its label, a token without label by itself.
LabelsOf(mapping, tokens) ==
    [i \in 1..Len(tokens) |->
        IF tokens[i] \in DOMAIN mapping THEN mapping[tokens[i]] ELSE tokens[i]]

Label_amputee == <<"A", "m", "p", "u", "t", "a", "n", "t">>

\* C22: for a field of the resolved taxonomy and a raw value that contains
\* ',', map_value returns the labels of the trimmed, non-empty tokens of the
\* value (a token that is no code of the field as it is), in their original
\* order, joined with ', '.
C22_SetValuedRendering ==
    (MappedFieldAsked /\ IsStr(map_args.value) /\ contains(map_args.value.v, ","))
        => map_result.value =
               Str(join(<<",", " ">>,
                        LabelsOf(ResolvedMapping(map_args), KeptTokens(map_args.value.v))))

\* Tokens amputee, bogus_code of field special_marks rendered as
\* "Amputant, bogus_code" (the label in transliteration).
C22_Witness ==
    /\ MappedFieldAsked
    /\ map_args.field_name = "special_marks"
    /\ map_args.value = Str(Code_amputee \o <<",">> \o Code_bogus)
    /\ map_result.value = Str(Label_amputee \o <<",", " ">> \o Code_bogus)

\* C23: for every unit identifier, every field of the resolved taxonomy and
\* every single code without ',' that the field's mapping does not have,
\* map_value returns, and what it returns is the raw code itself.
C23_UnknownCodeKept ==
    (/\ MappedFieldAsked
     /\ IsStr(map_args.value)
     /\ ~contains(map_args.value.v, ",")
     /\ map_args.value.v \notin DOMAIN ResolvedMapping(map_args))
        => map_result.value = map_args.value

\* An expert unit asked for the document format paper_direction, a code of
\* the bureau table only: the code comes back as it is.
C23_Witness ==
    /\ MappedFieldAsked
    /\ map_args.bureau_number = expert_id(1)
    /\ map_args.field_name = "document_format"
    /\ map_args.value = Str(Code_paper_direction)
    /\ map_result.value = Str(Code_paper_direction)

----------------------------------------------------------------------------
(* Concurrent store calls over the connection pool.  Each call is a        *)
(* coroutine that advances in steps; a step acquires one connection or     *)
(* runs one statement.  db_pool.acquire() is called without timeout        *)
(* (line 428), so it waits until a connection is free; release() hands     *)
(* the connection back (line 434).                                         *)

\* Most calls running at once, and the largest pool size drawn.
MaxCalls == 2
MaxPool == 2

RaceValid == Entry(K_mseDate, Str(Date_iso)) \o Entry(K_fullName, Str(<<"a", " ", "b">>))
RaceInvalid == Entry(K_fullName, Str(<<"a">>))

\* The table before the calls: empty, or one record inserted by bureau_1.
RaceRecord == sql_insert(EmptyDict, 0, bureau_id(1), normalize(RaceValid).data)
RaceStores ==
    {[table |-> EmptyDict, seq |-> 0], [table |-> RaceRecord.table, seq |-> RaceRecord.seq]}

\* A call not yet started.  What lines 654-706 make of its payload depends
\* on the payload alone and is kept with the call from the start; the call
\* acts on it once it holds its connection.
NewCall(op, record_id, items) ==
    [op |-> op, record_id |-> record_id, record_data |-> items, pc |-> "start",
     held |-> 0, normalized |-> normalize(items), transformed_data |-> EmptyDict,
     response |-> NoCall]

\* create_or_update_record with a record id, and delete_record.
RaceCalls ==
    {NewCall("create_or_update_record", 1, RaceValid),
     NewCall("create_or_update_record", 1, RaceInvalid),
     NewCall("create_or_update_record", 2, RaceValid),
     NewCall("delete_record", 1, <<>>)}

InitRace ==
    /\ \E s \in RaceStores : records = s.table /\ id_seq = s.seq
    /\ response = NoCall
    /\ workbook = <<>>
    /\ export_response = NoCall
    /\ record_data = <<>>
    /\ normalized = NoCall
    /\ map_args = NoCall
    /\ map_result = NoCall
    /\ bureau_count = DefaultSettings.bureau_count
    /\ excluded_bureaus = DefaultSettings.excluded_bureaus
    /\ experts = DefaultSettings.experts
    /\ \E n \in 1..MaxPool : pool = [size |-> n, free |-> n]
    /\ \E n \in 1..MaxCalls : calls \in [1..n -> RaceCalls]

Raised(status, error) == [status |-> status, detail |-> [error |-> error], result |-> Null]

Acquired == [pool EXCEPT !.free = @ - 1]
Released == [pool EXCEPT !.free = @ + 1]

OtherVarsUnchanged ==
    UNCHANGED <<response, settings_vars, export_vars, norm_vars, mapper_vars>>

\* Line 651, then lines 654-706 up to the next await: the first connection
\* is acquired and the payload normalised.  A refused payload raises 400 and
\* control goes to the finally clause of line 771.
UpdateAcquired(c, n) ==
    /\ calls[c].op = "create_or_update_record"
    /\ calls[c].pc = "start"
    /\ pool.free > 0
    /\ pool' = Acquired
    /\ calls' = [calls EXCEPT ![c] =
          IF n.status # 200
          THEN [@ EXCEPT !.held = @ + 1, !.pc = "release",
                         !.response = Raised(n.status, n.detail.error)]
          ELSE [@ EXCEPT !.held = @ + 1, !.pc = "lookup", !.transformed_data = n.data]]
    /\ UNCHANGED <<records, id_seq>>
    /\ OtherVarsUnchanged

UpdateAcquire(c) == UpdateAcquired(c, calls[c].normalized)

\* Line 633, inside get_record_by_id called at line 719: a second
\* connection is acquired while the first is held.
LookupAcquire(c) ==
    /\ calls[c].pc = "lookup"
    /\ pool.free > 0
    /\ pool' = Acquired
    /\ calls' = [calls EXCEPT ![c] = [@ EXCEPT !.held = @ + 1, !.pc = "fetch"]]
    /\ UNCHANGED <<records, id_seq>>
    /\ OtherVarsUnchanged

\* Lines 635-641 and 720-721: the row is fetched, the second connection is
\* released, and a missing row raises 404.
LookupFetched(c, existing_record) ==
    /\ calls[c].pc = "fetch"
    /\ pool' = Released
    /\ calls' = [calls EXCEPT ![c] =
          IF IsNull(existing_record)
          THEN [@ EXCEPT !.held = @ - 1, !.pc = "release",
                         !.response = Raised(404, "not_found")]
          ELSE [@ EXCEPT !.held = @ - 1, !.pc = "update"]]
    /\ UNCHANGED <<records, id_seq>>
    /\ OtherVarsUnchanged

LookupFetch(c) == LookupFetched(c, get_record_by_id(records, calls[c].record_id))

\* Lines 723-742: the UPDATE statement and what is made of its result.
UpdateAnswered(c, r) ==
    /\ calls[c].pc = "update"
    /\ records' = r.table
    /\ calls' = [calls EXCEPT ![c] =
          [@ EXCEPT !.pc = "release",
                    !.response = [status |-> r.status, detail |-> r.detail,
                                  result |-> r.result]]]
    /\ UNCHANGED <<id_seq, pool>>
    /\ OtherVarsUnchanged

UpdateStatement(c) ==
    UpdateAnswered(c, update_result(id_seq, sql_update(records, calls[c].transformed_data,
                                                       calls[c].record_id)))

\* Line 786: delete_record acquires its connection.
DeleteAcquire(c) ==
    /\ calls[c].op = "delete_record"
    /\ calls[c].pc = "start"
    /\ pool.free > 0
    /\ pool' = Acquired
    /\ calls' = [calls EXCEPT ![c] = [@ EXCEPT !.held = @ + 1, !.pc = "delete"]]
    /\ UNCHANGED <<records, id_seq>>
    /\ OtherVarsUnchanged

\* Lines 788-792: the DELETE statement; "DELETE" is in its status tag
\* whether or not a row went.
DeleteStatement(c) ==
    /\ calls[c].pc = "delete"
    /\ records' = sql_delete(records, calls[c].record_id)
    /\ calls' = [calls EXCEPT ![c] =
          [@ EXCEPT !.pc = "release",
                    !.response = [status |-> 200, detail |-> [error |-> "none"],
                                  result |-> BoolV(TRUE)]]]
    /\ UNCHANGED <<id_seq, pool>>
    /\ OtherVarsUnchanged

\* Lines 771-772 and 793-794: the finally clause releases the call's own
\* connection and the call returns or raises.
Release(c) ==
    /\ calls[c].pc = "release"
    /\ pool' = Released
    /\ calls' = [calls EXCEPT ![c] = [@ EXCEPT !.held = @ - 1, !.pc = "done"]]
    /\ UNCHANGED <<records, id_seq>>
    /\ OtherVarsUnchanged

NextRace ==
    \/ \E c \in DOMAIN calls : UpdateAcquire(c)
    \/ \E c \in DOMAIN calls : LookupAcquire(c)
    \/ \E c \in DOMAIN calls : LookupFetch(c)
    \/ \E c \in DOMAIN calls : UpdateStatement(c)
    \/ \E c \in DOMAIN calls : DeleteAcquire(c)
    \/ \E c \in DOMAIN calls : DeleteStatement(c)
    \/ \E c \in DOMAIN calls : Release(c)

SpecRace == InitRace /\ [][NextRace]_vars

\* The event loop runs every coroutine that can run: a step that stays
\* possible is taken.
SpecRaceFair == SpecRace /\ WF_vars(NextRace)

----------------------------------------------------------------------------
(* Claims about concurrent store calls *)

AllCallsDone == \A c \in DOMAIN calls : calls[c].pc = "done"

OnlyUpdateCalls == \A c \in DOMAIN calls : calls[c].op = "create_or_update_record"

\* A call waits in acquire() and no connection is free.
Waiting(c) == calls[c].pc \in {"start", "lookup"} /\ pool.free = 0

\* C24: for every pool size and every number of concurrent
\* create_or_update_record calls that carry a record id, every call
\* eventually completes and every connection is back in the pool.
C24_NoPoolDeadlock ==
    OnlyUpdateCalls => <>(AllCallsDone /\ pool.free = pool.size)

\* Call c runs its UPDATE statement in this step.
UpdateRuns(c) == calls[c].pc = "update" /\ calls'[c].pc = "release"

\* The record the call names is not in the table.
RecordGone(c) == rows_with_id(records, calls[c].record_id) = {}

\* C25: when the record was deleted between an update's existence check and
\* its UPDATE statement, the update reports not-found (404) and not
\* success, no record is inserted and the record stays absent.
C25_UpdateAfterDeleteNotFound ==
    [][\A c \in DOMAIN calls :
          (UpdateRuns(c) /\ RecordGone(c))
              => /\ calls'[c].response.status = 404
                 /\ records' = records
                 /\ id_seq' = id_seq]_vars

\* An update that passed its existence check, lost its record to a delete
\* and answered 404 from line 741; the record is absent.
C25_Witness ==
    \E c, d \in DOMAIN calls :
        /\ calls[c].op = "create_or_update_record"
        /\ calls[c].pc = "done"
        /\ calls[c].response.status = 404
        /\ calls[c].response.detail.error = "not_found_after_update"
        /\ calls[d].op = "delete_record"
        /\ calls[d].record_id = calls[c].record_id
        /\ RecordGone(c)

----------------------------------------------------------------------------
(* create_or_update_record called with payloads and record ids that it     *)
(* refuses, between calls that store and delete records.                   *)

\* A string int() refuses.
Id_bad == <<"1", "x">>

ErrExamEntries ==
    {<<>>, Entry(K_mseDate, Str(Date_iso)), Entry(K_mseDate, Str(<<>>)),
     Entry(K_mseDate, Null), Entry(K_mseDate, Str(Date_bad))}

ErrExtraEntries ==
    {<<>>, Entry(K_decisionDate, Str(Date_bad)), Entry(K_decisionDate, Str(Date_dotted))}

ErrPayloads == {a \o b : a \in ErrExamEntries, b \in ErrExtraEntries}

\* Record ids: none, the ids the sequence can hand out and the next one, a
\* digit string, a string that is no integer, and a list.
ErrRecordIds ==
    {Null, Str(<<"1">>), Str(Id_bad), List(<<>>), List(<<Id_bad>>)}
        \cup {IntV(n) : n \in 1..(MaxSeq + 1)}

NextErr ==
    \/ /\ response = NoCall
       /\ \E items \in ErrPayloads, rid \in ErrRecordIds :
             CreateOrUpdateRecord(bureau_id(1), items, rid)
       /\ UNCHANGED <<settings_vars, export_vars, norm_vars, mapper_vars, pool_vars>>
    \/ /\ response = NoCall
       /\ \E n \in 1..(MaxSeq + 1) : DeleteRecord(n)
       /\ UNCHANGED <<settings_vars, export_vars, norm_vars, mapper_vars, pool_vars>>
    \/ /\ TakeResponse
       /\ UNCHANGED <<settings_vars, export_vars, norm_vars, mapper_vars, pool_vars>>

SpecErr == Init /\ [][NextErr]_vars

\* create_or_update_record answers in this step.
SaveAnswers ==
    response = NoCall /\ response' # NoCall /\ response'.op = "create_or_update_record"

\* A date field of the payload holds a string that is no date.
HasBadDate(items) == \E i \in 1..Len(items) : items[i].value = Str(Date_bad)

\* The record id is given and int() refuses it.
BadRecordId(record_id) ==
    Truthy(record_id) /\ ~IsInt(record_id) /\ record_id # Str(<<"1">>)

\* The integer a record id stands for.
IdNumber(record_id) == IF IsInt(record_id) THEN record_id.v ELSE 1

\* The call is one the validation refuses: no examination date, a date that
\* does not parse, or a record id that is no integer.
InvalidCall(call) ==
    \/ ExamDateAbsent(call.record_data)
    \/ HasBadDate(call.record_data)
    \/ BadRecordId(call.record_id)

\* The call names a record that the table does not hold.
UnknownRecord(call, table) ==
    /\ Truthy(call.record_id)
    /\ \A r \in DOMAIN table : table[r][id] # IntV(IdNumber(call.record_id))

----------------------------------------------------------------------------
(* Date fields of the canonical record, checked under SpecNorm *)

\* C27: after a successful normalisation each of the four date fields in the
\* canonical record is null or a date, whatever the type of the payload's
\* value (string, native date, number, boolean, list).
C27_DateFieldsNullOrDate ==
    NormalizedOK =>
        \A c \in DateFields \cap DOMAIN normalized.data :
            IsNull(normalized.data[c]) \/ IsDate(normalized.data[c])

====
